---- MODULE Spec2Model ----
(***************************************************************************)
(* swing-trader: the market-data cache of src/data_loaders/data_manager.py *)
(* (DataManager) as a state machine.                                       *)
(*                                                                         *)
(* Time is counted in whole days.  A datetime is a record [t, tz] whose tz *)
(* is "UTC" (timezone-aware) or "naive".  A DataFrame is a record          *)
(* [tz, bars]: the timezone of its index and its rows in stored order; a   *)
(* row is [ts, close], the close standing for the OHLCV columns.           *)
(* A parquet file of the store is a record [kind, tz, bars] whose kind is  *)
(* "missing", "parquet" (readable), "corrupt" or "partial" (being          *)
(* written; pd.read_parquet raises on both of the latter).                 *)
(***************************************************************************)
EXTENDS Integers, Sequences, FiniteSets, TLC

\* ---------------------------------------------------------------- bounds
\* Last day of the modelled time line 0..MaxT.
MaxT == 11
\* Number of get_data_for_backtest calls in one behaviour of Spec.
MaxCalls == 2

\* ------------------------------------------------------ program constants
\* timedelta(days=5) of _check_date_range_coverage.
Tolerance == 5

Time == 0..MaxT
Tickers == {"SPY", "QQQ"}
Timeframes == {"daily", "minute"}
Procs == {1, 2}

VARIABLES
    store,          \* [path, ticker] -> parquet file
    alpaca_client,  \* DataManager.alpaca_client is set
    pc,             \* per caller: position in get_data_for_backtest
    args,           \* per caller: ticker, start_date, end_date, timeframe
    file_exists,    \* per caller: local file_exists
    has_coverage,   \* per caller: local has_coverage
    df,             \* per caller: local df (the fetched table)
    ret,            \* per caller: the returned table
    raised,         \* per caller: the exception leaving the call, or "none"
    fetchLog,       \* per caller: the _fetch_from_alpaca calls of this invocation
    requests,       \* per caller: the get_stock_bars requests of this invocation
    responses,      \* per caller: what get_stock_bars answered to each request
    writes,         \* per caller: completed save_data calls of this invocation
    store0,         \* per caller: the store when this invocation started
    prev,           \* summary of the invocation completed before the current one
    persisted,      \* per file: the table the last completed save_data wrote, if any
    calls,          \* invocations started so far
    live,           \* per caller: get_data_for_live is running, its days_back and clock reading
    trace,          \* per caller: the positions this invocation has been in, in order
    reads,          \* per caller: what each pd.read_parquet of this invocation found
    raced,          \* per caller: tables other callers wrote into the same file meanwhile
    order,          \* the TrailingStopOrder handed to AlpacaBroker.submit_order, if any
    order_raised,   \* the exception TrailingStopOrder.__init__ raised, or "none"
    alpaca_request, \* the AlpacaTrailingStopOrderRequest submit_order built, if any
    alpaca_order,   \* the order object the broker's client returned, if any
    order_result,   \* the OrderResult submit_order returned, if any
    bt_tickers,     \* run_backtest: local tickers (from the strategy's params)
    bt_i,           \* run_backtest: index of the ticker the for loop is at
    bt_pc,          \* run_backtest: position ("idle", "daily", "minute", "run", "done", "raised")
    bt_feeds,       \* run_backtest: names of the feeds added to cerebro, in order
    bt_log,         \* run_backtest: the retrievals made so far and how each ended
    lv_tickers,     \* run_strategy: local tickers
    lv_i,           \* run_strategy: index of the ticker the for loop is at
    lv_pc,          \* run_strategy: position ("idle", "loop", "returned", "raised")
    results,        \* run_strategy: local results (signals, executions, errors)
    lv_log,         \* run_strategy: the tickers processed so far and how each ended
    strategy_config, \* run_strategy: the strategy_config it was called with
    lookback_days,  \* run_strategy: local lookback_days
    submitted,      \* run_strategy: the orders _execute_signal passed to submit_order
    trailing_stop_percent, \* strategy: params.trailing_stop_percent, None before __init__
    st_order,       \* strategy: self.order, the ref of the order it holds, 0 for None
    entry_price,    \* strategy: self.entry_price
    trailing_stop_order_ids, \* strategy: refs tracked as trailing-stop orders
    order_types,    \* strategy: self.order_types, order ref -> 'buy', 'sell', 'trailing_stop'
    trailing_stop_set, \* SMAStrategy: self.trailing_stop_set
    position,       \* backtrader: self.position.size (negative when short)
    orders,         \* backtrader: every order the strategy created, by ref
    lambda_pc,      \* lambda_handler: position ("idle", "run_strategies", "loop", "returned", "raised")
    strategies,     \* run_strategies: local strategies (their names)
    strategy_i,     \* run_strategies: index of the strategy the for loop is at
    all_results,    \* run_strategies: local all_results
    strategy_log,   \* run_strategies: how run_strategy ended for each strategy so far
    lambda_raised,  \* lambda_handler: what raised inside its try block, "none" if nothing
    response        \* lambda_handler: the response returned

dataVars == <<store, alpaca_client, pc, args, file_exists, has_coverage, df, ret,
              raised, fetchLog, requests, responses, writes, store0, prev, persisted, calls,
              live, trace, reads, raced>>

brokerVars == <<order, order_raised, alpaca_request, alpaca_order, order_result>>

backtestRunnerVars == <<bt_tickers, bt_i, bt_pc, bt_feeds, bt_log>>

liveRunnerVars == <<lv_tickers, lv_i, lv_pc, results, lv_log, strategy_config,
                    lookback_days, submitted>>

strategyVars == <<trailing_stop_percent, st_order, entry_price, trailing_stop_order_ids,
                  order_types,
                  trailing_stop_set, position, orders>>

lambdaVars == <<lambda_pc, strategies, strategy_i, all_results, strategy_log,
                lambda_raised, response>>

\* Everything that is no state of the DataManager and its callers.
outside == <<brokerVars, backtestRunnerVars, liveRunnerVars, strategyVars, lambdaVars>>

vars == <<dataVars, outside>>

\* ------------------------------------------------------------ data model
\* An Optional[...] value.
None == [some |-> FALSE, v |-> 0]

Some(v) == [some |-> TRUE, v |-> v]

DateTime(t, tz) == [t |-> t, tz |-> tz]

Bar(t, c) == [ts |-> t, close |-> c]

Frame(tz, bars) == [tz |-> tz, bars |-> bars]

EmptyFrame == Frame("UTC", <<>>)

MissingFile == [kind |-> "missing", tz |-> "UTC", bars |-> <<>>]

CorruptFile == [kind |-> "corrupt", tz |-> "UTC", bars |-> <<>>]

PartialFile == [kind |-> "partial", tz |-> "UTC", bars |-> <<>>]

ParquetFile(frame) == [kind |-> "parquet", tz |-> frame.tz, bars |-> frame.bars]

\* path = self.daily_path if timeframe == 'daily' else self.minute_path
PathOf(timeframe) == IF timeframe = "daily" THEN "daily_path" ELSE "minute_path"

Paths == {PathOf(tf) : tf \in Timeframes}

Keys == Paths \X Tickers

\* file_path = path / f"{ticker}.parquet"
FilePath(ticker, timeframe) == <<PathOf(timeframe), ticker>>

KeepAsGiven(dt) == dt

\* start_date if start_date.tzinfo else start_date.replace(tzinfo=timezone.utc)
EnsureAware(dt) == IF dt.tz = "naive" THEN DateTime(dt.t, "UTC") ELSE dt

\* Python refuses to order a naive and an aware datetime (TypeError).
Comparable(a, b) == (a.tz = "naive") <=> (b.tz = "naive")

\* df.index.min(), df.index.max()
IndexSet(bars) == {bars[i].ts : i \in 1..Len(bars)}

IndexMin(bars) == CHOOSE m \in IndexSet(bars) : \A x \in IndexSet(bars) : m <= x

IndexMax(bars) == CHOOSE m \in IndexSet(bars) : \A x \in IndexSet(bars) : m >= x

\* pd.read_parquet(file_path) raises unless the file is a complete parquet file.
ReadRaises(file) == file.kind # "parquet"

\* ----------------------------------------------- _check_file_exists
CheckFileExistsOf(file) == file.kind # "missing"

\* ----------------------------------------------- _check_date_range_coverage
\* has_coverage = data_start <= compare_start + 5d and data_end >= compare_end - 5d
CoverageTestStrict(data_start, data_end, compare_start, compare_end) ==
    /\ Comparable(data_start, compare_start)
    /\ Comparable(data_end, compare_end)
    /\ data_start.t < compare_start.t + Tolerance
    /\ data_end.t > compare_end.t - Tolerance

CoverageTestStartOnly(data_start, data_end, compare_start, compare_end) ==
    /\ Comparable(data_start, compare_start)
    /\ data_start.t <= compare_start.t + Tolerance

CoverageTest(data_start, data_end, compare_start, compare_end) ==
    /\ Comparable(data_start, compare_start)
    /\ Comparable(data_end, compare_end)
    /\ data_start.t <= compare_start.t + Tolerance
    /\ data_end.t >= compare_end.t - Tolerance

\* except Exception as e: ... return False
CoverageOnReadErrorTrue == TRUE

CoverageOnReadError == FALSE

\* if df.empty: return False
CoverageWhenEmptyTrue == TRUE

CoverageWhenEmpty == FALSE

CheckDateRangeCoverageOf(file, start_date, end_date) ==
    IF file.kind = "missing" THEN FALSE
    ELSE IF ReadRaises(file) THEN CoverageOnReadError
    ELSE IF file.bars = <<>> THEN CoverageWhenEmpty
    ELSE CoverageTest(EnsureAware(DateTime(IndexMin(file.bars), file.tz)),
                      EnsureAware(DateTime(IndexMax(file.bars), file.tz)),
                      EnsureAware(start_date), EnsureAware(end_date))

\* ----------------------------------------------- _load_from_file
\* df = df[df.index >= start_date_aware]; df = df[df.index <= end_date_aware]
InRangeOpenEnd(ts, start_date_aware, end_date_aware) ==
    /\ ts >= start_date_aware.t
    /\ ts < end_date_aware.t

InRange(ts, start_date_aware, end_date_aware) ==
    /\ ts >= start_date_aware.t
    /\ ts <= end_date_aware.t

FilterRowsNewestFirst(bars, start_date_aware, end_date_aware) ==
    LET kept == SelectSeq(bars, LAMBDA b : InRange(b.ts, start_date_aware, end_date_aware))
    IN  [i \in 1..Len(kept) |-> kept[Len(kept) + 1 - i]]

FilterRows(bars, start_date_aware, end_date_aware) ==
    SelectSeq(bars, LAMBDA b : InRange(b.ts, start_date_aware, end_date_aware))

LoadWholeFile(file, start_date, end_date) == Frame("UTC", file.bars)

\* The index is localized to UTC when naive, then the rows are filtered.
LoadFromFileOf(file, start_date, end_date) ==
    Frame("UTC", FilterRows(file.bars, EnsureAware(start_date), EnsureAware(end_date)))

\* ----------------------------------------------- the remote provider
\* The provider (Alpaca) is outside the repository.  It holds one bar per
\* trading day of a ticker's listing; a request returns the bars of the
\* requested range in ascending order, with a UTC index.
Weekday(t) == (t % 7) \notin {5, 6}

Listed == {t \in Time : Weekday(t)}

LateListed == {t \in Time : Weekday(t) /\ t >= MaxT - 2}

Delisted == {}

Calendars == {Listed, LateListed, Delisted}

ProviderClose(t) == 100 + t

Days == [i \in 1..(MaxT + 1) |-> i - 1]

ProviderBars(cal, start_date, end_date) ==
    LET days == SelectSeq(Days, LAMBDA t : /\ t \in cal
                                           /\ t >= start_date.t
                                           /\ t <= end_date.t)
    IN  [i \in 1..Len(days) |-> Bar(days[i], ProviderClose(days[i]))]

\* bars.df of the response to StockBarsRequest(ticker, tf, start, end)
GetStockBars(start_date, end_date) ==
    {Frame("UTC", ProviderBars(cal, start_date, end_date)) : cal \in Calendars}

\* ----------------------------------------------- files found at start-up
\* Files a previous run (or anything else) left in the data directories:
\* UTC or naive indexes, spans around the tolerance boundary, an empty
\* table, an unreadable file.  Their closes differ from the provider's.
StaleClose(t) == 50 + t

StaleBars(first, last) == [i \in 1..(last - first + 1) |-> Bar(first + i - 1, StaleClose(first + i - 1))]

StaleSpans == {<<5, 5>>, <<6, 6>>, <<5, 6>>, <<2, 9>>}

\* A file whose rows are not in timestamp order.
UnsortedBars == <<Bar(6, StaleClose(6)), Bar(3, StaleClose(3)), Bar(5, StaleClose(5))>>

PreExistingFiles ==
    {ParquetFile(Frame(tz, StaleBars(sp[1], sp[2]))) : tz \in {"UTC", "naive"}, sp \in StaleSpans}
        \cup {ParquetFile(Frame("UTC", UnsortedBars)), ParquetFile(EmptyFrame), CorruptFile}

SomeExistingFiles ==
    {ParquetFile(Frame("naive", StaleBars(0, 5))), ParquetFile(EmptyFrame), CorruptFile}

EmptyStore == [k \in Keys |-> MissingFile]

\* ----------------------------------------------- requests
AllRanges == {r \in Time \X Time : r[1] <= r[2]}

SeqRanges == {<<0, MaxT>>, <<1, MaxT - 1>>, <<MaxT - 4, MaxT>>}

Request(ticker, s, e, tz, tf) ==
    [ticker |-> ticker, start_date |-> DateTime(s, tz), end_date |-> DateTime(e, tz),
     timeframe |-> tf]

NoArgs == Request("", 0, 0, "UTC", "")

KeyOf(a) == FilePath(a.ticker, a.timeframe)

\* What is remembered of a finished invocation.
Summary(p) ==
    [made |-> TRUE, args |-> args[p], ret |-> ret[p], raised |-> raised[p],
     fetches |-> Len(fetchLog[p]), writes |-> writes[p],
     exists |-> file_exists[p], hit |-> has_coverage[p], before |-> store0[p]]

NoCall ==
    [made |-> FALSE, args |-> NoArgs, ret |-> EmptyFrame, raised |-> "none",
     fetches |-> 0, writes |-> 0, exists |-> FALSE, hit |-> FALSE, before |-> EmptyStore]

\* get_data_for_live is not running.
NotLive == [on |-> FALSE, days_back |-> 0, now |-> 0]

\* ================================================ runners: values
\* The longest ticker list a strategy's params hold.
MaxTickers == 3

TickerNames == <<"SPY", "QQQ", "IWM", "DIA">>

\* params.get('tickers', []): no ticker, or the first few of the names.
TickerLists == {SubSeq(TickerNames, 1, n) : n \in 0..MaxTickers}

NoResults == [signals |-> <<>>, executions |-> <<>>, errors |-> <<>>]

\* A key that a params dict does not hold.
NoTickers == [some |-> FALSE, v |-> <<>>]

\* The params dicts of a strategy configuration, as far as run_strategy
\* reads them: 'tickers' and 'lookback_days', each present or not.
ParamsDicts ==
    [tickers : {NoTickers} \cup {Some(l) : l \in TickerLists},
     lookback_days : {None, Some(30)}]

\* The strategy configurations: the 'tickers' and 'lookback_days' entries of
\* the configuration itself, and its 'params' dict.
StrategyConfigs ==
    [tickers : {<<>>, SubSeq(TickerNames, 1, 2)},
     lookback_days : {5},
     params : ParamsDicts]

NoConfig == [tickers |-> <<>>, lookback_days |-> 0,
             params |-> [tickers |-> NoTickers, lookback_days |-> None]]

RunnersInit ==
    /\ bt_tickers = <<>>
    /\ bt_i = 0
    /\ bt_pc = "idle"
    /\ bt_feeds = <<>>
    /\ bt_log = <<>>
    /\ lv_tickers = <<>>
    /\ lv_i = 0
    /\ lv_pc = "idle"
    /\ results = NoResults
    /\ lv_log = <<>>
    /\ strategy_config = NoConfig
    /\ lookback_days = 0
    /\ submitted = <<>>

\* ================================================ strategies: values
\* Prices and fractions are whole numbers of millionths (0.05 is 50000).
Million == 1000000

\* The most orders one strategy creates.
MaxOrders == 3

\* params.trailing_stop_percent: unset (0), the default of SMAStrategy
\* (0.001), and the first value of its optimization range (0.02).
StopPercents == {0, 1000, 20000}

\* order.executed.price, in millionths of a dollar.
ExecutedPrices == {100 * Million, 250 * Million}

\* The size a place_* call is given: 0 shares, or some.
OrderSizes == {0, 2}

\* self.order_types = {}
NoOrderTypes == [ref \in {} |-> "buy"]

StrategyInit ==
    /\ trailing_stop_percent = None
    /\ st_order = 0
    /\ entry_price = None
    /\ trailing_stop_order_ids = {}
    /\ order_types = NoOrderTypes
    /\ trailing_stop_set = FALSE
    /\ position = 0
    /\ orders = <<>>

\* An error message that is not there.
NoError == [some |-> FALSE, v |-> ""]

\* ================================================ lambda_handler: values
\* The most strategies the configuration holds.
MaxStrategies == 3

StrategyNames == <<"SMAStrategy", "AlwaysBuyStrategy", "RSIStrategy", "MACDStrategy">>

\* config_loader.get_strategies(): none, or the first few of the names.
StrategyLists == {SubSeq(StrategyNames, 1, n) : n \in 0..MaxStrategies}

NoResponse == [statusCode |-> 0, results |-> <<>>, error |-> NoError]

LambdaInit ==
    /\ lambda_pc = "idle"
    /\ strategies = <<>>
    /\ strategy_i = 0
    /\ all_results = <<>>
    /\ strategy_log = <<>>
    /\ lambda_raised = "none"
    /\ response = NoResponse

\* ================================================ brokers: values
\* Percentages and prices are decimal numbers, held in millionths:
\* 50000 is 0.05 (5% as a fraction), 5000000 is 5.0 (5 as a whole percent).
\* Every value below is a multiple of a hundred millionths, so that dividing
\* by 100 is exact.
TrailPercents == {100, 500, 10000, 50000, 200000, 1000000}

TrailPrices == {1000000, 2500000}

OrderSides == {"buy", "sell"}

\* The order requests of types.py, and an OrderRequest that is none of them.
SupportedOrderTypes == {"market", "limit", "stop", "stop_limit", "trailing_stop"}

OrderTypes == SupportedOrderTypes \cup {"unsupported"}

NoOrder ==
    [made |-> FALSE, order_type |-> "none", symbol |-> "", qty |-> 0, side |-> "buy",
     limit_price |-> None, stop_price |-> None,
     trail_percent |-> None, trail_price |-> None]

NoAlpacaRequest ==
    [built |-> FALSE, order_type |-> "none", symbol |-> "", qty |-> 0, side |-> "buy",
     limit_price |-> None, stop_price |-> None,
     trail_percent |-> None, trail_price |-> None]

NoAlpacaOrder == [returned |-> FALSE, trail_percent |-> None, trail_price |-> None]

NoOrderResult ==
    [returned |-> FALSE, raised |-> FALSE, success |-> FALSE, order |-> FALSE,
     error |-> NoError, trail_percent |-> None]

BrokerInit ==
    /\ order = NoOrder
    /\ order_raised = "none"
    /\ alpaca_request = NoAlpacaRequest
    /\ alpaca_order = NoAlpacaOrder
    /\ order_result = NoOrderResult

\* ----------------------------------------------- initial states
InitWith(keys, files) ==
    /\ \/ store = EmptyStore
       \/ \E k \in keys, f \in files : store = [EmptyStore EXCEPT ![k] = f]
    /\ alpaca_client = FALSE
    /\ pc = [p \in Procs |-> "idle"]
    /\ args = [p \in Procs |-> NoArgs]
    /\ file_exists = [p \in Procs |-> FALSE]
    /\ has_coverage = [p \in Procs |-> FALSE]
    /\ df = [p \in Procs |-> EmptyFrame]
    /\ ret = [p \in Procs |-> EmptyFrame]
    /\ raised = [p \in Procs |-> "none"]
    /\ fetchLog = [p \in Procs |-> <<>>]
    /\ requests = [p \in Procs |-> <<>>]
    /\ responses = [p \in Procs |-> <<>>]
    /\ writes = [p \in Procs |-> 0]
    /\ store0 = [p \in Procs |-> store]
    /\ prev = NoCall
    /\ persisted = [k \in Keys |-> [saved |-> FALSE, frame |-> EmptyFrame]]
    /\ calls = 0
    /\ live = [p \in Procs |-> NotLive]
    /\ trace = [p \in Procs |-> <<>>]
    /\ reads = [p \in Procs |-> <<>>]
    /\ raced = [p \in Procs |-> {}]
    /\ BrokerInit
    /\ RunnersInit
    /\ StrategyInit
    /\ LambdaInit

\* Sequences of retrievals start with no file, or with one file for SPY's daily bars.
Init == InitWith({FilePath("SPY", "daily")}, SomeExistingFiles)

\* Single retrievals start with no file, or with any one file.
InitWide == InitWith(Keys, PreExistingFiles)

\* ----------------------------------------------- DataManager.init_alpaca_client
InitAlpacaClient ==
    /\ \A p \in Procs : pc[p] \in {"idle", "done"}
    /\ alpaca_client = FALSE
    /\ alpaca_client' = TRUE
    /\ UNCHANGED <<store, pc, args, file_exists, has_coverage, df, ret, raised,
                   fetchLog, requests, responses, writes, store0, prev, persisted, calls>>
    /\ UNCHANGED <<live, trace, reads, raced>>
    /\ UNCHANGED outside

\* ----------------------------------------------- DataManager.get_data_for_backtest
\* The caller enters get_data_for_backtest(ticker, start_date, end_date, timeframe).
GetDataForBacktest(p, a) ==
    /\ pc[p] \in {"idle", "done"}
    /\ pc' = [pc EXCEPT ![p] = "check_exists"]
    /\ args' = [args EXCEPT ![p] = a]
    /\ file_exists' = [file_exists EXCEPT ![p] = FALSE]
    /\ has_coverage' = [has_coverage EXCEPT ![p] = FALSE]
    /\ df' = [df EXCEPT ![p] = EmptyFrame]
    /\ ret' = [ret EXCEPT ![p] = EmptyFrame]
    /\ raised' = [raised EXCEPT ![p] = "none"]
    /\ fetchLog' = [fetchLog EXCEPT ![p] = <<>>]
    /\ requests' = [requests EXCEPT ![p] = <<>>]
    /\ responses' = [responses EXCEPT ![p] = <<>>]
    /\ writes' = [writes EXCEPT ![p] = 0]
    /\ store0' = [store0 EXCEPT ![p] = store]
    /\ prev' = IF pc[p] = "done" THEN Summary(p) ELSE prev
    /\ UNCHANGED persisted
    /\ calls' = calls + 1
    /\ live' = [live EXCEPT ![p] = NotLive]
    /\ trace' = [trace EXCEPT ![p] = <<"check_exists">>]
    /\ reads' = [reads EXCEPT ![p] = <<>>]
    /\ raced' = [raced EXCEPT ![p] = {}]
    /\ UNCHANGED <<store, alpaca_client>>
    /\ UNCHANGED outside

\* ----------------------------------------------- DataManager.get_data_for_live
\* timedelta(days=days_back + 10): the buffer for weekends and holidays.
LiveBuffer == 10

LiveStartNoBuffer(now, days_back) == now - days_back

\* start_date = end_date - timedelta(days=days_back + 10)
LiveStart(now, days_back) == now - (days_back + LiveBuffer)

\* end_date = datetime.now(timezone.utc); the fetch is for 'daily'.
LiveFetchArgs(ticker, now, days_back) ==
    Request(ticker, LiveStart(now, days_back), now, "UTC", "daily")

LiveEntryThroughCache == "check_exists"

\* return self._fetch_from_alpaca(ticker, start_date, end_date, 'daily')
LiveEntry == "fetch"

\* The caller enters get_data_for_live(ticker, days_back) when the clock reads now.
GetDataForLive(p, ticker, days_back, now) ==
    /\ pc[p] \in {"idle", "done"}
    /\ pc' = [pc EXCEPT ![p] = LiveEntry]
    /\ live' = [live EXCEPT ![p] = [on |-> TRUE, days_back |-> days_back, now |-> now]]
    /\ args' = [args EXCEPT ![p] = LiveFetchArgs(ticker, now, days_back)]
    /\ file_exists' = [file_exists EXCEPT ![p] = FALSE]
    /\ has_coverage' = [has_coverage EXCEPT ![p] = FALSE]
    /\ df' = [df EXCEPT ![p] = EmptyFrame]
    /\ ret' = [ret EXCEPT ![p] = EmptyFrame]
    /\ raised' = [raised EXCEPT ![p] = "none"]
    /\ fetchLog' = [fetchLog EXCEPT ![p] = <<>>]
    /\ requests' = [requests EXCEPT ![p] = <<>>]
    /\ responses' = [responses EXCEPT ![p] = <<>>]
    /\ writes' = [writes EXCEPT ![p] = 0]
    /\ store0' = [store0 EXCEPT ![p] = store]
    /\ prev' = IF pc[p] = "done" THEN Summary(p) ELSE prev
    /\ calls' = calls + 1
    /\ trace' = [trace EXCEPT ![p] = <<pc'[p]>>]
    /\ reads' = [reads EXCEPT ![p] = <<>>]
    /\ raced' = [raced EXCEPT ![p] = {}]
    /\ UNCHANGED <<store, alpaca_client, persisted>>
    /\ UNCHANGED outside

\* if file_exists: (coverage check) ... else fall through to the fetch
AfterExists(e) == IF e THEN "check_coverage" ELSE "fetch"

\* if has_coverage: return self._load_from_file(...), else fall through to the fetch
AfterCoverageAlwaysFetch(h) == "fetch"

AfterCoverage(h) == IF h THEN "load" ELSE "fetch"

\* file_exists = self._check_file_exists(ticker, timeframe)
CheckFileExists(p) ==
    /\ pc[p] = "check_exists"
    /\ LET e == CheckFileExistsOf(store[KeyOf(args[p])])
       IN  /\ file_exists' = [file_exists EXCEPT ![p] = e]
           /\ pc' = [pc EXCEPT ![p] = AfterExists(e)]
    /\ trace' = [trace EXCEPT ![p] = Append(@, pc'[p])]
    /\ UNCHANGED <<store, alpaca_client, args, has_coverage, df, ret, raised,
                   fetchLog, requests, responses, writes, store0, prev, persisted, calls>>
    /\ UNCHANGED <<live, reads, raced>>
    /\ UNCHANGED outside

\* has_coverage = self._check_date_range_coverage(ticker, timeframe, start, end)
CheckDateRangeCoverage(p) ==
    /\ pc[p] = "check_coverage"
    /\ LET h == CheckDateRangeCoverageOf(store[KeyOf(args[p])],
                                         args[p].start_date, args[p].end_date)
       IN  /\ has_coverage' = [has_coverage EXCEPT ![p] = h]
           /\ pc' = [pc EXCEPT ![p] = AfterCoverage(h)]
    /\ reads' = [reads EXCEPT ![p] =
                     IF store[KeyOf(args[p])].kind = "missing" THEN @
                     ELSE Append(@, store[KeyOf(args[p])])]
    /\ trace' = [trace EXCEPT ![p] = Append(@, pc'[p])]
    /\ UNCHANGED <<store, alpaca_client, args, file_exists, df, ret, raised,
                   fetchLog, requests, responses, writes, store0, prev, persisted, calls>>
    /\ UNCHANGED <<live, raced>>
    /\ UNCHANGED outside

\* return self._load_from_file(ticker, timeframe, start_date, end_date)
LoadFromFile(p) ==
    /\ pc[p] = "load"
    /\ LET file == store[KeyOf(args[p])]
       IN  IF ReadRaises(file)
           THEN /\ raised' = [raised EXCEPT ![p] = "ReadError"]
                /\ ret' = ret
           ELSE /\ ret' = [ret EXCEPT ![p] =
                              LoadFromFileOf(file, args[p].start_date, args[p].end_date)]
                /\ raised' = raised
    /\ pc' = [pc EXCEPT ![p] = "done"]
    /\ reads' = [reads EXCEPT ![p] = Append(@, store[KeyOf(args[p])])]
    /\ trace' = [trace EXCEPT ![p] = Append(@, pc'[p])]
    /\ UNCHANGED <<store, alpaca_client, args, file_exists, has_coverage, df,
                   fetchLog, requests, responses, writes, store0, prev, persisted, calls>>
    /\ UNCHANGED <<live, raced>>
    /\ UNCHANGED outside

\* self._fetch_from_alpaca(ticker, start_date, end_date, timeframe): the
\* caller's arguments, passed on in the callee's order.
FetchArgsFromEnd(a) == [a EXCEPT !.start_date = a.end_date]

FetchArgs(a) == a

\* The arguments _fetch_from_alpaca is entered with: get_data_for_live passes its
\* own ticker, start_date and end_date with 'daily'.
FetchCall(p) == IF live[p].on THEN args[p] ELSE FetchArgs(args[p])

\* if not df.empty: self.save_data(ticker, df, timeframe)
ShouldSaveAlways(frame) == TRUE

ShouldSaveInverted(frame) == frame.bars = <<>>

ShouldSave(frame) == frame.bars # <<>>

AfterFetchRetryEmpty(isLive, frame) ==
    IF frame.bars = <<>> THEN "fetch"
    ELSE IF isLive THEN "done" ELSE "save"

\* Where the call goes with the fetched table: get_data_for_backtest saves a
\* non-empty one and returns an empty one; get_data_for_live returns either.
AfterFetch(isLive, frame) ==
    IF ~isLive /\ ShouldSave(frame) THEN "save" ELSE "done"

\* The request _fetch_from_alpaca builds from its arguments.
StockBarsRequest(a) ==
    [symbol |-> a.ticker, timeframe |-> IF a.timeframe = "daily" THEN "Day" ELSE "Minute",
     start |-> a.start_date, end |-> a.end_date]

FetchNoClientLate(p) ==
    /\ pc[p] = "fetch"
    /\ ~alpaca_client
    /\ fetchLog' = [fetchLog EXCEPT ![p] = Append(@, FetchCall(p))]
    /\ requests' = [requests EXCEPT ![p] = Append(@, StockBarsRequest(FetchCall(p)))]
    /\ raised' = [raised EXCEPT ![p] = "RuntimeError"]
    /\ pc' = [pc EXCEPT ![p] = "done"]
    /\ trace' = [trace EXCEPT ![p] = Append(@, pc'[p])]
    /\ UNCHANGED <<store, alpaca_client, args, file_exists, has_coverage, df, ret,
                   responses, writes, store0, prev, persisted, calls>>
    /\ UNCHANGED <<live, reads, raced>>
    /\ UNCHANGED outside

\* df = self._fetch_from_alpaca(...) with no client: RuntimeError before any request.
FetchNoClient(p) ==
    /\ pc[p] = "fetch"
    /\ ~alpaca_client
    /\ fetchLog' = [fetchLog EXCEPT ![p] = Append(@, FetchCall(p))]
    /\ raised' = [raised EXCEPT ![p] = "RuntimeError"]
    /\ pc' = [pc EXCEPT ![p] = "done"]
    /\ trace' = [trace EXCEPT ![p] = Append(@, pc'[p])]
    /\ UNCHANGED <<store, alpaca_client, args, file_exists, has_coverage, df, ret,
                   requests, responses, writes, store0, prev, persisted, calls>>
    /\ UNCHANGED <<live, reads, raced>>
    /\ UNCHANGED outside

FetchFailsSwallowed(p) ==
    /\ pc[p] = "fetch"
    /\ alpaca_client
    /\ fetchLog' = [fetchLog EXCEPT ![p] = Append(@, FetchCall(p))]
    /\ requests' = [requests EXCEPT ![p] = Append(@, StockBarsRequest(FetchCall(p)))]
    /\ responses' = [responses EXCEPT ![p] = Append(@, [ok |-> FALSE, frame |-> EmptyFrame])]
    /\ ret' = [ret EXCEPT ![p] = EmptyFrame]
    /\ pc' = [pc EXCEPT ![p] = "done"]
    /\ trace' = [trace EXCEPT ![p] = Append(@, pc'[p])]
    /\ UNCHANGED <<store, alpaca_client, args, file_exists, has_coverage, df, raised,
                   writes, store0, prev, persisted, calls>>
    /\ UNCHANGED <<live, reads, raced>>
    /\ UNCHANGED outside

\* get_stock_bars raises (auth, rate limit, network): the error leaves the call.
FetchFails(p) ==
    /\ pc[p] = "fetch"
    /\ alpaca_client
    /\ fetchLog' = [fetchLog EXCEPT ![p] = Append(@, FetchCall(p))]
    /\ requests' = [requests EXCEPT ![p] = Append(@, StockBarsRequest(FetchCall(p)))]
    /\ responses' = [responses EXCEPT ![p] = Append(@, [ok |-> FALSE, frame |-> EmptyFrame])]
    /\ raised' = [raised EXCEPT ![p] = "FetchError"]
    /\ pc' = [pc EXCEPT ![p] = "done"]
    /\ trace' = [trace EXCEPT ![p] = Append(@, pc'[p])]
    /\ UNCHANGED <<store, alpaca_client, args, file_exists, has_coverage, df, ret,
                   writes, store0, prev, persisted, calls>>
    /\ UNCHANGED <<live, reads, raced>>
    /\ UNCHANGED outside

\* get_stock_bars answers.  get_data_for_backtest returns an empty table at once
\* (if not df.empty fails) and saves any other; get_data_for_live returns the
\* table as it is.
FetchReturns(p) ==
    /\ pc[p] = "fetch"
    /\ alpaca_client
    /\ fetchLog' = [fetchLog EXCEPT ![p] = Append(@, FetchCall(p))]
    /\ requests' = [requests EXCEPT ![p] = Append(@, StockBarsRequest(FetchCall(p)))]
    /\ \E got \in GetStockBars(FetchCall(p).start_date, FetchCall(p).end_date) :
          /\ responses' = [responses EXCEPT ![p] = Append(@, [ok |-> TRUE, frame |-> got])]
          /\ df' = [df EXCEPT ![p] = got]
          /\ pc' = [pc EXCEPT ![p] = AfterFetch(live[p].on, got)]
          /\ ret' = IF pc'[p] = "done" THEN [ret EXCEPT ![p] = got] ELSE ret
    /\ trace' = [trace EXCEPT ![p] = Append(@, pc'[p])]
    /\ UNCHANGED <<store, alpaca_client, args, file_exists, has_coverage, raised,
                   writes, store0, prev, persisted, calls>>
    /\ UNCHANGED <<live, reads, raced>>
    /\ UNCHANGED outside

\* ----------------------------------------------- DataManager.save_data
\* df.to_parquet(file_path) opens the destination itself and writes into it:
\* until it is finished the file is there but is no complete parquet file.
\* A row of the old file that the new table has no row for.
OnlyInOld(old, frame) ==
    SelectSeq(old.bars, LAMBDA b : \A i \in 1..Len(frame.bars) : frame.bars[i].ts # b.ts)

WrittenFileMerged(old, frame) ==
    [kind |-> "parquet", tz |-> frame.tz, bars |-> OnlyInOld(old, frame) \o frame.bars]

WrittenFileLastRowLost(old, frame) ==
    ParquetFile(Frame(frame.tz, SubSeq(frame.bars, 1, Len(frame.bars) - 1)))

\* The file df.to_parquet(file_path) leaves: the table alone, whatever was there.
WrittenFile(old, frame) == ParquetFile(frame)

SaveKeyDaily(a) == FilePath(a.ticker, "daily")

\* path = daily_path if timeframe == 'daily' else minute_path; path / f"{ticker}.parquet"
SaveKey(a) == FilePath(a.ticker, a.timeframe)

\* The callers whose to_parquet into file k is in progress.
Writers(k) == {q \in Procs : pc[q] = "saving" /\ SaveKey(args[q]) = k}

\* to_parquet opens the file for writing: its old content is gone.  A writer
\* that starts while others are writing the same file races with them.
SaveDataBegin(p) ==
    /\ pc[p] = "save"
    /\ store' = [store EXCEPT ![SaveKey(args[p])] = PartialFile]
    /\ pc' = [pc EXCEPT ![p] = "saving"]
    /\ raced' = [q \in Procs |->
                    IF q = p THEN {df[w] : w \in Writers(SaveKey(args[p]))}
                    ELSE IF q \in Writers(SaveKey(args[p])) THEN raced[q] \cup {df[p]}
                    ELSE raced[q]]
    /\ trace' = [trace EXCEPT ![p] = Append(@, pc'[p])]
    /\ UNCHANGED <<alpaca_client, args, file_exists, has_coverage, df, ret, raised,
                   fetchLog, requests, responses, writes, store0, prev, persisted, calls>>
    /\ UNCHANGED <<live, reads>>
    /\ UNCHANGED outside

\* What the file can hold when p's to_parquet returns.  While another writer
\* is still at it the file is incomplete.  Two writers that wrote the same
\* file at once each wrote their own bytes into it, unsynchronized: the file
\* is one table, the other, or no parquet file at all.
FileAfterWrite(p) ==
    IF Writers(SaveKey(args[p])) \ {p} # {} THEN {PartialFile}
    ELSE IF raced[p] = {} THEN {WrittenFile(store0[p][SaveKey(args[p])], df[p])}
    ELSE {WrittenFile(store0[p][SaveKey(args[p])], df[p]), CorruptFile}
             \cup {ParquetFile(f) : f \in raced[p]}

\* to_parquet finishes; save_data returns and get_data_for_backtest returns df.
SaveDataEnd(p) ==
    /\ pc[p] = "saving"
    /\ \E file \in FileAfterWrite(p) :
          store' = [store EXCEPT ![SaveKey(args[p])] = file]
    /\ persisted' = [persisted EXCEPT ![SaveKey(args[p])] = [saved |-> TRUE, frame |-> df[p]]]
    /\ writes' = [writes EXCEPT ![p] = @ + 1]
    /\ ret' = [ret EXCEPT ![p] = df[p]]
    /\ pc' = [pc EXCEPT ![p] = "done"]
    /\ trace' = [trace EXCEPT ![p] = Append(@, pc'[p])]
    /\ UNCHANGED <<alpaca_client, args, file_exists, has_coverage, df, raised,
                   fetchLog, requests, responses, store0, prev, calls>>
    /\ UNCHANGED <<live, reads, raced>>
    /\ UNCHANGED outside

\* ----------------------------------------------- specifications
\* The callers of the repository are single-threaded: one invocation at a time.
Caller == 1

Step(p) ==
    \/ CheckFileExists(p)
    \/ CheckDateRangeCoverage(p)
    \/ LoadFromFile(p)
    \/ FetchNoClient(p)
    \/ FetchFails(p)
    \/ FetchReturns(p)
    \/ SaveDataBegin(p)
    \/ SaveDataEnd(p)

\* Sequences of retrievals over a few ranges.
CallSeq ==
    /\ calls < MaxCalls
    /\ \E ticker \in Tickers, r \in SeqRanges, tf \in Timeframes :
          GetDataForBacktest(Caller, Request(ticker, r[1], r[2], "UTC", tf))

Next ==
    \/ InitAlpacaClient
    \/ CallSeq
    \/ Step(Caller)

Spec == Init /\ [][Next]_vars

\* One retrieval, over every range and every file found at start-up.
CallWide ==
    /\ calls < 1
    /\ \E ticker \in Tickers, r \in AllRanges, tz \in {"UTC", "naive"}, tf \in Timeframes :
          GetDataForBacktest(Caller, Request(ticker, r[1], r[2], tz, tf))

\* One live retrieval, at any clock reading.
LookbackDays == {0, 5, 30}

CallLive ==
    /\ calls < 1
    /\ \E ticker \in Tickers, days_back \in LookbackDays, now \in Time :
          GetDataForLive(Caller, ticker, days_back, now)

NextWide ==
    \/ InitAlpacaClient
    \/ CallWide
    \/ CallLive
    \/ Step(Caller)

SpecWide == InitWide /\ [][NextWide]_vars

\* One retrieval over every range, run to its end: each statement of the
\* blocking call is executed once it is reached.
CallOnce ==
    /\ calls < 1
    /\ \E ticker \in Tickers, r \in AllRanges, tf \in Timeframes :
          GetDataForBacktest(Caller, Request(ticker, r[1], r[2], "UTC", tf))

NextOnce ==
    \/ InitAlpacaClient
    \/ CallOnce
    \/ Step(Caller)

SpecFair == Init /\ [][NextOnce]_vars /\ WF_vars(Step(Caller))

\* Two callers (two runs of a runner on one data directory) retrieving the
\* same ticker's daily bars, their steps interleaved in every order.
CallConc ==
    /\ calls < MaxCalls
    /\ \E p \in Procs, r \in SeqRanges :
          GetDataForBacktest(p, Request("SPY", r[1], r[2], "UTC", "daily"))

NextConc ==
    \/ InitAlpacaClient
    \/ CallConc
    \/ \E p \in Procs : Step(p)

SpecConc == Init /\ [][NextConc]_vars

\* Sequences of retrievals of both kinds: backtest calls as in CallSeq, and
\* live calls made at the end of the clock.
CallSeqLive ==
    /\ calls < MaxCalls
    /\ \E ticker \in Tickers, days_back \in {0, 30} :
          GetDataForLive(Caller, ticker, days_back, MaxT)

NextMixed ==
    \/ InitAlpacaClient
    \/ CallSeq
    \/ CallSeqLive
    \/ Step(Caller)

SpecMixed == Init /\ [][NextMixed]_vars

\* ================================================ brokers: submit_order
\* TrailingStopOrder.__init__: exactly one of trail_percent and trail_price
\* must be given; the values are stored as they are.
\* A constructor check that lets an order with both values through.
AtLeastOne(trail_percent, trail_price) == trail_percent.some \/ trail_price.some

\* The two checks of TrailingStopOrder.__init__ pass: not both None, not both given.
ExactlyOne(trail_percent, trail_price) == trail_percent.some # trail_price.some

\* TrailingStopOrder(symbol, qty, side, trail_percent, trail_price): when it
\* raises no order exists (made is FALSE); the record keeps the arguments.
NewTrailingStopOrder(symbol, qty, side, trail_percent, trail_price) ==
    /\ IF ~ExactlyOne(trail_percent, trail_price)
       THEN /\ order' = [NoOrder EXCEPT !.trail_percent = trail_percent,
                                        !.trail_price = trail_price]
            /\ order_raised' = "ValueError"
       ELSE /\ order' = [made |-> TRUE, order_type |-> "trailing_stop",
                         symbol |-> symbol, qty |-> qty, side |-> side,
                         limit_price |-> None, stop_price |-> None,
                         trail_percent |-> trail_percent, trail_price |-> trail_price]
            /\ order_raised' = "none"
    /\ alpaca_request' = NoAlpacaRequest
    /\ alpaca_order' = NoAlpacaOrder
    /\ order_result' = NoOrderResult
    /\ UNCHANGED <<dataVars, backtestRunnerVars, liveRunnerVars, strategyVars, lambdaVars>>

\* MarketOrder, LimitOrder, StopOrder, StopLimitOrder(symbol, qty, side, ...),
\* or an OrderRequest of no type submit_order knows.
NewOrderRequest(order_type, symbol, qty, side, price) ==
    /\ order_type \in OrderTypes \ {"trailing_stop"}
    /\ order' = [made |-> TRUE, order_type |-> order_type,
                 symbol |-> symbol, qty |-> qty, side |-> side,
                 limit_price |-> IF order_type \in {"limit", "stop_limit"}
                                 THEN Some(price) ELSE None,
                 stop_price |-> IF order_type \in {"stop", "stop_limit"}
                                THEN Some(price) ELSE None,
                 trail_percent |-> None, trail_price |-> None]
    /\ order_raised' = "none"
    /\ alpaca_request' = NoAlpacaRequest
    /\ alpaca_order' = NoAlpacaOrder
    /\ order_result' = NoOrderResult
    /\ UNCHANGED <<dataVars, backtestRunnerVars, liveRunnerVars, strategyVars, lambdaVars>>

\* The broker's whole-number percent is 100 times the decimal fraction.
WholePercent == 100

\* trail_percent=order.trail_percent in AlpacaTrailingStopOrderRequest(...)
RequestTrailPercent(trail_percent) == trail_percent

\* AlpacaTrailingStopOrderRequest(symbol=..., qty=..., side=..., trail_percent=...,
\* trail_price=...)
AlpacaTrailingStopOrderRequest(o) ==
    [built |-> TRUE, order_type |-> "trailing_stop",
     symbol |-> o.symbol, qty |-> o.qty, side |-> o.side,
     limit_price |-> None, stop_price |-> None,
     trail_percent |-> RequestTrailPercent(o.trail_percent),
     trail_price |-> o.trail_price]

\* The request submit_order builds for an order of a supported type.
AlpacaRequest(o) ==
    IF o.order_type = "trailing_stop" THEN AlpacaTrailingStopOrderRequest(o)
    ELSE [built |-> TRUE, order_type |-> o.order_type,
          symbol |-> o.symbol, qty |-> o.qty, side |-> o.side,
          limit_price |-> o.limit_price, stop_price |-> o.stop_price,
          trail_percent |-> None, trail_price |-> None]

\* trail_percent_decimal = float(alpaca_order.trail_percent) / 100, None kept
FromAlpacaTrailPercent(trail_percent) ==
    IF trail_percent.some THEN Some(trail_percent.v \div WholePercent) ELSE None

\* A submit_order with no except clause: the exception leaves it.
OnExceptionRaise(e) == [NoOrderResult EXCEPT !.raised = TRUE]

\* except Exception as e: return OrderResult(success=False, error=str(e))
OnException(e) ==
    [returned |-> TRUE, raised |-> FALSE, success |-> FALSE, order |-> FALSE,
     error |-> Some(e), trail_percent |-> None]

\* submit_order has not been called for the order yet.
NotSubmitted == order.made /\ ~order_result.returned /\ ~order_result.raised

\* submit_order with a broker that accepts the order and echoes what it
\* received: request built, client.submit_order, Order.from_alpaca.
SubmitOrderAccepted ==
    /\ NotSubmitted
    /\ order.order_type \in SupportedOrderTypes
    /\ alpaca_request' = AlpacaRequest(order)
    /\ alpaca_order' = [returned |-> TRUE,
                        trail_percent |-> alpaca_request'.trail_percent,
                        trail_price |-> alpaca_request'.trail_price]
    /\ order_result' = [returned |-> TRUE, raised |-> FALSE, success |-> TRUE,
                        order |-> TRUE, error |-> NoError,
                        trail_percent |-> FromAlpacaTrailPercent(alpaca_order'.trail_percent)]
    /\ UNCHANGED <<order, order_raised>>
    /\ UNCHANGED <<dataVars, backtestRunnerVars, liveRunnerVars, strategyVars, lambdaVars>>

\* submit_order with a client that raises: except Exception returns
\* OrderResult(success=False, error=str(e)).
SubmitOrderFails ==
    /\ NotSubmitted
    /\ order.order_type \in SupportedOrderTypes
    /\ alpaca_request' = AlpacaRequest(order)
    /\ alpaca_order' = NoAlpacaOrder
    /\ order_result' = OnException("APIError")
    /\ UNCHANGED <<order, order_raised>>
    /\ UNCHANGED <<dataVars, backtestRunnerVars, liveRunnerVars, strategyVars, lambdaVars>>

\* submit_order with an order of no known type: the else branch returns
\* OrderResult(success=False, error="Unsupported order type: ...").
SubmitOrderUnsupported ==
    /\ NotSubmitted
    /\ order.order_type \notin SupportedOrderTypes
    /\ order_result' = [returned |-> TRUE, raised |-> FALSE, success |-> FALSE,
                        order |-> FALSE, error |-> Some("Unsupported order type"),
                        trail_percent |-> None]
    /\ UNCHANGED <<order, order_raised, alpaca_request, alpaca_order>>
    /\ UNCHANGED <<dataVars, backtestRunnerVars, liveRunnerVars, strategyVars, lambdaVars>>

NewOrder ==
    \/ \E symbol \in Tickers, qty \in {1, 10}, side \in OrderSides,
          trail_percent \in {None} \cup {Some(v) : v \in TrailPercents},
          trail_price \in {None} \cup {Some(v) : v \in TrailPrices} :
           NewTrailingStopOrder(symbol, qty, side, trail_percent, trail_price)
    \/ \E order_type \in OrderTypes, symbol \in Tickers, qty \in {1, 10},
          side \in OrderSides, price \in TrailPrices :
           NewOrderRequest(order_type, symbol, qty, side, price)

NextBroker ==
    \/ NewOrder
    \/ SubmitOrderAccepted
    \/ SubmitOrderFails
    \/ SubmitOrderUnsupported

\* The broker boundary alone, with no file in the store.
InitBroker == InitWith({}, {})

SpecBroker == InitBroker /\ [][NextBroker]_vars

\* ================================================ BacktestRunner.run_backtest
\* How a get_data_for_backtest call made by the runner can end: with bars,
\* with an empty table, or with an error raised (a failed fetch, a missing
\* client, an unreadable file at load).
RetrievalOutcomes == {"bars", "empty", "raised"}

\* Where the for loop goes after the ticker at index i.
NextTicker(i, tickers) == IF i + 1 > Len(tickers) THEN "run" ELSE "daily"

\* run_backtest(strategy_config), up to the for loop over the tickers.
RunBacktest(tickers) ==
    /\ bt_pc = "idle"
    /\ bt_tickers' = tickers
    /\ bt_i' = 1
    /\ bt_pc' = IF tickers = <<>> THEN "run" ELSE "daily"
    /\ bt_feeds' = <<>>
    /\ bt_log' = <<>>
    /\ UNCHANGED <<dataVars, brokerVars, liveRunnerVars, strategyVars, lambdaVars>>

\* daily_df = self.data_manager.get_data_for_backtest(ticker, ..., timeframe='daily'):
\* the call is in no try block, so an error leaves run_backtest; an empty
\* table skips the ticker (continue); bars become a feed.
DailyRetrieval(outcome) ==
    /\ bt_pc = "daily"
    /\ bt_log' = Append(bt_log, [ticker |-> bt_tickers[bt_i], timeframe |-> "daily",
                                 outcome |-> outcome])
    /\ CASE outcome = "raised" ->
              /\ bt_pc' = "raised"
              /\ UNCHANGED <<bt_i, bt_feeds>>
         [] outcome = "empty" ->
              /\ bt_pc' = NextTicker(bt_i, bt_tickers)
              /\ bt_i' = bt_i + 1
              /\ UNCHANGED bt_feeds
         [] outcome = "bars" ->
              /\ bt_pc' = "minute"
              /\ bt_feeds' = Append(bt_feeds, bt_tickers[bt_i])
              /\ UNCHANGED bt_i
    /\ UNCHANGED bt_tickers
    /\ UNCHANGED <<dataVars, brokerVars, liveRunnerVars, strategyVars, lambdaVars>>

\* try: minute_df = self.data_manager.get_data_for_backtest(..., timeframe='minute')
\* except Exception: a warning; in every case the loop goes on.
MinuteRetrieval(outcome) ==
    /\ bt_pc = "minute"
    /\ bt_log' = Append(bt_log, [ticker |-> bt_tickers[bt_i], timeframe |-> "minute",
                                 outcome |-> outcome])
    /\ bt_pc' = NextTicker(bt_i, bt_tickers)
    /\ bt_i' = bt_i + 1
    /\ UNCHANGED <<bt_tickers, bt_feeds>>
    /\ UNCHANGED <<dataVars, brokerVars, liveRunnerVars, strategyVars, lambdaVars>>

\* results = cerebro.run() and what follows it.
CerebroRun ==
    /\ bt_pc = "run"
    /\ bt_pc' = "done"
    /\ UNCHANGED <<bt_tickers, bt_i, bt_feeds, bt_log>>
    /\ UNCHANGED <<dataVars, brokerVars, liveRunnerVars, strategyVars, lambdaVars>>

NextBacktestRunner ==
    \/ \E tickers \in TickerLists : RunBacktest(tickers)
    \/ \E outcome \in RetrievalOutcomes : DailyRetrieval(outcome)
    \/ \E outcome \in RetrievalOutcomes : MinuteRetrieval(outcome)
    \/ CerebroRun

SpecBacktestRunner == InitBroker /\ [][NextBacktestRunner]_vars

\* ================================================ LiveRunner.run_strategy
\* How the body of the for loop can go for one ticker: get_data_for_live
\* raises or returns an empty table; _check_signal raises or returns None;
\* with a signal, _execute_signal returns an execution, returns one that
\* carries an 'error' (submit_order answered success=False, or an exception
\* was caught inside _execute_signal), or returns None.
TickerOutcomes ==
    {"fetch_raised", "empty", "signal_raised", "no_signal",
     "executed", "submit_failed", "execute_raised", "not_executed"}

\* The outcomes in which an exception reaches the for loop's try block.
RaisedInLoop == {"fetch_raised", "signal_raised"}

\* The outcomes in which _check_signal returned a signal.
WithSignal == {"executed", "submit_failed", "execute_raised", "not_executed"}

\* The outcomes in which _execute_signal returned a dict carrying 'error'.
ExecutionError == {"submit_failed", "execute_raised"}

\* results after the loop body for one ticker.
ResultsAfter(r, ticker, outcome) ==
    [signals    |-> IF outcome \in WithSignal
                    THEN Append(r.signals, ticker) ELSE r.signals,
     executions |-> IF outcome \in WithSignal \ {"not_executed"}
                    THEN Append(r.executions,
                                [ticker |-> ticker, error |-> outcome \in ExecutionError])
                    ELSE r.executions,
     errors     |-> IF outcome \in RaisedInLoop
                    THEN Append(r.errors, [ticker |-> ticker, error |-> outcome])
                    ELSE r.errors]

\* A loop with no try block: an exception in the body leaves run_strategy.
AfterTickerNoTry(outcome, i, tickers) ==
    IF outcome \in RaisedInLoop THEN "raised"
    ELSE IF i + 1 > Len(tickers) THEN "returned" ELSE "loop"

\* Where run_strategy is after the body for the ticker at index i: the
\* except clause catches every Exception, so the loop goes on to the next
\* ticker, and after the last one results is returned.
AfterTicker(outcome, i, tickers) ==
    IF i + 1 > Len(tickers) THEN "returned" ELSE "loop"

\* params.get('lookback_days', 30)
DefaultLookbackDays == 30

\* tickers = params.get('tickers', [])
ParamsTickers(config) ==
    IF config.params.tickers.some THEN config.params.tickers.v ELSE <<>>

\* lookback_days = params.get('lookback_days', 30)
ParamsLookbackDays(config) ==
    IF config.params.lookback_days.some THEN config.params.lookback_days.v
    ELSE DefaultLookbackDays

\* run_strategy(strategy_config), up to the for loop over the tickers.
RunStrategy(config) ==
    /\ lv_pc = "idle"
    /\ strategy_config' = config
    /\ lv_tickers' = ParamsTickers(config)
    /\ lookback_days' = ParamsLookbackDays(config)
    /\ lv_i' = 1
    /\ lv_pc' = IF ParamsTickers(config) = <<>> THEN "returned" ELSE "loop"
    /\ results' = NoResults
    /\ lv_log' = <<>>
    /\ submitted' = <<>>
    /\ UNCHANGED <<dataVars, brokerVars, backtestRunnerVars, strategyVars, lambdaVars>>

\* What broker.get_position(ticker) answers: None (get_open_position raised,
\* as it does for a symbol with no position), or a position with its qty.
PositionAnswers == {None, Some(3), Some(5)}

\* What the body of the loop meets for one ticker: how get_data_for_live
\* ends, whether the strategy run in _check_signal raises, the broker's
\* answer to get_position in _check_signal, the strategy's buy_signal() and
\* sell_signal(), whether get_account raises, the broker's answer to
\* get_position in _execute_signal, and the success of submit_order.
AllPassInputs ==
    [fetch : RetrievalOutcomes, check_raises : BOOLEAN, first : PositionAnswers,
     buy_signal : BOOLEAN, sell_signal : BOOLEAN, account_raises : BOOLEAN,
     second : PositionAnswers, success : BOOLEAN]

\* A gate that never sees a position.
HasPositionNever(pos) == FALSE

\* has_position = position is not None and position.qty > 0
HasPosition(pos) == pos.some /\ pos.v > 0

\* action in _check_signal: 'buy', 'sell' or None.
ActionOf(in) ==
    IF ~HasPosition(in.first)
    THEN IF in.buy_signal THEN "buy" ELSE "none"
    ELSE IF in.sell_signal THEN "sell" ELSE "none"

\* qty = int(position_value / price) with position_value = signal.get('size', 1) * price
BuyQty == 1

\* Whether _execute_signal gets as far as broker.submit_order(order).
Submits(in) ==
    /\ in.fetch = "bars" /\ ~in.check_raises
    /\ \/ ActionOf(in) = "buy" /\ ~in.account_raises /\ BuyQty > 0
       \/ ActionOf(in) = "sell" /\ in.second.some

\* How the body of the loop ends for these inputs.
OutcomeOf(in) ==
    CASE in.fetch = "raised"        -> "fetch_raised"
      [] in.fetch = "empty"         -> "empty"
      [] in.check_raises            -> "signal_raised"
      [] ActionOf(in) = "none"       -> "no_signal"
      [] ActionOf(in) = "buy" /\ in.account_raises -> "execute_raised"
      [] Submits(in)                -> IF in.success THEN "executed" ELSE "submit_failed"
      [] OTHER                      -> "not_executed"

\* The inputs the body does not read are left at their first value.
Canonical(in) ==
    /\ (in.fetch # "bars" \/ in.check_raises) =>
           /\ in.first = None /\ ~in.buy_signal /\ ~in.sell_signal
           /\ in.fetch # "bars" => ~in.check_raises
    /\ HasPosition(in.first) => ~in.buy_signal
    /\ ~HasPosition(in.first) => ~in.sell_signal
    /\ ~(in.fetch = "bars" /\ ~in.check_raises /\ ActionOf(in) = "buy") => ~in.account_raises
    /\ ~(in.fetch = "bars" /\ ~in.check_raises /\ ActionOf(in) = "sell") => in.second = None
    /\ ~Submits(in) => ~in.success

PassInputs == {in \in AllPassInputs : Canonical(in)}

\* The order _execute_signal passes to submit_order, with the answers of
\* get_position it was decided on.
SubmittedOrder(ticker, in) ==
    [ticker |-> ticker,
     side |-> IF ActionOf(in) = "buy" THEN "BUY" ELSE "SELL",
     qty |-> IF ActionOf(in) = "buy" THEN BuyQty ELSE in.second.v,
     checked |-> in.first,
     held |-> in.second]

\* One pass of the for loop: the try block and its except clause.
ProcessTicker(in) ==
    /\ lv_pc = "loop"
    /\ results' = ResultsAfter(results, lv_tickers[lv_i], OutcomeOf(in))
    /\ lv_log' = Append(lv_log, [ticker |-> lv_tickers[lv_i], outcome |-> OutcomeOf(in),
                                 days_back |-> lookback_days])
    /\ submitted' = IF Submits(in)
                    THEN Append(submitted, SubmittedOrder(lv_tickers[lv_i], in))
                    ELSE submitted
    /\ lv_pc' = AfterTicker(OutcomeOf(in), lv_i, lv_tickers)
    /\ lv_i' = IF lv_pc' = "raised" THEN lv_i ELSE lv_i + 1
    /\ UNCHANGED <<lv_tickers, strategy_config, lookback_days>>
    /\ UNCHANGED <<dataVars, brokerVars, backtestRunnerVars, strategyVars, lambdaVars>>

NextLiveRunner ==
    \/ \E config \in StrategyConfigs : RunStrategy(config)
    \/ \E in \in PassInputs : ProcessTicker(in)

SpecLiveRunner == InitBroker /\ [][NextLiveRunner]_vars

\* ================================================ BaseStrategy
\* The statuses in which backtrader is done with an order.
FinalStatuses == {"Completed", "Canceled", "Margin", "Rejected", "Expired"}

Outstanding(o) == o.status \notin FinalStatuses

\* The statuses an order can be notified with after a given one.
StatusesAfter(status) ==
    CASE status = "Created"   -> {"Submitted"}
      [] status = "Submitted" -> {"Accepted", "Margin", "Rejected"}
      [] status = "Accepted"  -> {"Partial", "Completed", "Canceled", "Margin", "Expired"}
      [] status = "Partial"   -> {"Partial", "Completed", "Canceled", "Expired"}
      [] OTHER                -> {}

Abs(n) == IF n < 0 THEN 0 - n ELSE n

\* a * f for a price a and a fraction f, both in millionths.
Times(a, f) == (a \div Million) * f + ((a % Million) * f) \div Million

\* self.buy(...) / self.sell(...): backtrader creates no order for size 0
\* (and returns None); otherwise the order gets the next ref. placed tells
\* an order made by place_buy_order / place_sell_order from one made by
\* set_trailing_stop; basis is the entry price a stop was computed from.
NewBtOrder(os, ordtype, exectype, price, size, placed, basis) ==
    IF size = 0 THEN os
    ELSE Append(os, [ordtype |-> ordtype, exectype |-> exectype, price |-> price,
                     size |-> Abs(size), filled |-> 0, status |-> "Created",
                     placed |-> placed, basis |-> basis])

\* The ref of the order self.buy / self.sell returned, 0 for None.
ReturnedRef(os, size) == IF size = 0 THEN 0 ELSE Len(os) + 1

\* __init__ with the params the strategy is added with.
NewStrategy(percent) ==
    /\ ~trailing_stop_percent.some
    /\ trailing_stop_percent' = Some(percent)
    /\ st_order' = 0
    /\ entry_price' = None
    /\ trailing_stop_order_ids' = {}
    /\ order_types' = NoOrderTypes
    /\ trailing_stop_set' = FALSE
    /\ UNCHANGED <<position, orders>>
    /\ UNCHANGED <<dataVars, brokerVars, backtestRunnerVars, liveRunnerVars, lambdaVars>>

\* self.order_types[ref] = type
SetType(types, ref, type) ==
    [r \in DOMAIN types \cup {ref} |-> IF r = ref THEN type ELSE types[r]]

\* self.order_types.pop(ref, None)
PopType(types, ref) == [r \in DOMAIN types \ {ref} |-> types[r]]

\* place_buy_order / place_sell_order as a function of the strategy's state:
\* nothing while self.order is set; else the order is created and kept in
\* self.order. A sell with no size closes the position (size = position.size).
PlaceOrder(ordtype, exectype, price, size) ==
    IF st_order # 0
    THEN UNCHANGED <<st_order, orders, order_types>>
    ELSE /\ orders' = NewBtOrder(orders, ordtype, exectype, price, size, TRUE, 0)
         /\ st_order' = ReturnedRef(orders, size)
         /\ order_types' = IF ReturnedRef(orders, size) = 0 THEN order_types
                           ELSE SetType(order_types, ReturnedRef(orders, size), ordtype)

\* set_trailing_stop(percent) as a function of the strategy's state.
PercentDivisor == 100

\* The fraction set_trailing_stop moves the stop away from the entry price.
TrailFraction(percent) == percent \div PercentDivisor

StopPrice(entry, percent, size) ==
    IF size > 0 THEN Times(entry, Million - TrailFraction(percent))
    ELSE Times(entry, Million + TrailFraction(percent))

\* A set_trailing_stop that leaves order_types as it is.
TrackStopIdOnly(types, ref) == types

\* self.order_types[trailing_stop_order.ref] = 'trailing_stop'
TrackStop(types, ref) == SetType(types, ref, "trailing_stop")

SetTrailingStopOrders(percent) ==
    IF position = 0 \/ ~entry_price.some
    THEN UNCHANGED <<orders, trailing_stop_order_ids, order_types>>
    ELSE /\ orders' = NewBtOrder(orders, IF position > 0 THEN "sell" ELSE "buy", "Stop",
                                  StopPrice(entry_price.v, percent, position),
                                  position, FALSE, entry_price.v)
         /\ trailing_stop_order_ids' = trailing_stop_order_ids \cup {Len(orders) + 1}
         /\ order_types' = TrackStop(order_types, Len(orders) + 1)

\* The size arguments of place_buy_order / place_sell_order: None, or a number.
SizeArgs == {None} \cup {Some(n) : n \in OrderSizes}

\* The exectype and price arguments: none (a market order), or a limit order.
ExecArgs == {[exectype |-> "Market", price |-> 0],
             [exectype |-> "Limit", price |-> 90 * Million]}

\* The stake of backtrader's default sizer, used when the size is None.
DefaultStake == 1

Constructed == trailing_stop_percent.some /\ Len(orders) < MaxOrders

\* place_buy_order(exectype, price, size); get_position_size of BaseStrategy
\* returns None, which leaves the size to the sizer.
PlaceBuyOrder(exec, size) ==
    /\ Constructed
    /\ PlaceOrder("buy", exec.exectype, exec.price,
                  IF size.some THEN size.v ELSE DefaultStake)
    /\ UNCHANGED <<trailing_stop_percent, entry_price, trailing_stop_order_ids,
                   trailing_stop_set, position>>
    /\ UNCHANGED <<dataVars, brokerVars, backtestRunnerVars, liveRunnerVars, lambdaVars>>

\* place_sell_order(exectype, price, size).
PlaceSellOrder(exec, size) ==
    /\ Constructed
    /\ PlaceOrder("sell", exec.exectype, exec.price,
                  IF size.some THEN size.v ELSE position)
    /\ UNCHANGED <<trailing_stop_percent, entry_price, trailing_stop_order_ids,
                   trailing_stop_set, position>>
    /\ UNCHANGED <<dataVars, brokerVars, backtestRunnerVars, liveRunnerVars, lambdaVars>>

\* set_trailing_stop(percent), called with the strategy's own parameter.
SetTrailingStop ==
    /\ Constructed
    /\ SetTrailingStopOrders(trailing_stop_percent.v)
    /\ UNCHANGED <<trailing_stop_percent, st_order, entry_price, trailing_stop_set, position>>
    /\ UNCHANGED <<dataVars, brokerVars, backtestRunnerVars, liveRunnerVars, lambdaVars>>

\* The shares an order gets with a notification: the rest of it when it
\* completes, one share when it is filled in part.
FillOf(o, status) ==
    CASE status = "Completed" -> o.size - o.filled
      [] status = "Partial"   -> 1
      [] OTHER                -> 0

\* backtrader moves the order ref to a status (filling it at price when it
\* executes) and calls notify_order(order).
NotifyOrder(ref, status, price) ==
    /\ ref \in 1..Len(orders)
    /\ status \in StatusesAfter(orders[ref].status)
    /\ status = "Partial" => orders[ref].filled + 1 < orders[ref].size
    /\ orders' = [orders EXCEPT ![ref].status = status,
                                ![ref].filled = @ + FillOf(orders[ref], status)]
    /\ position' = IF orders[ref].ordtype = "buy"
                   THEN position + FillOf(orders[ref], status)
                   ELSE position - FillOf(orders[ref], status)
    /\ IF status \in {"Submitted", "Accepted"}
       THEN UNCHANGED <<st_order, entry_price, trailing_stop_order_ids, order_types>>
       ELSE /\ entry_price' =
                   IF status = "Completed"
                   THEN IF orders[ref].ordtype = "buy" THEN Some(price) ELSE None
                   ELSE entry_price
            /\ trailing_stop_order_ids' =
                   IF status \in {"Completed", "Canceled", "Margin", "Rejected"}
                   THEN trailing_stop_order_ids \ {ref}
                   ELSE trailing_stop_order_ids
            /\ order_types' =
                   IF status \in {"Completed", "Canceled", "Margin", "Rejected"}
                   THEN PopType(order_types, ref)
                   ELSE order_types
            /\ st_order' = 0
    /\ UNCHANGED <<trailing_stop_percent, trailing_stop_set>>
    /\ UNCHANGED <<dataVars, brokerVars, backtestRunnerVars, liveRunnerVars, lambdaVars>>

AllStatuses == {"Submitted", "Accepted", "Partial", "Completed", "Canceled", "Margin",
                "Rejected", "Expired"}

NextBaseStrategy ==
    \/ \E percent \in StopPercents : NewStrategy(percent)
    \/ \E exec \in ExecArgs, size \in SizeArgs : PlaceBuyOrder(exec, size)
    \/ \E exec \in ExecArgs, size \in SizeArgs : PlaceSellOrder(exec, size)
    \/ SetTrailingStop
    \/ \E ref \in 1..MaxOrders, status \in AllStatuses, price \in ExecutedPrices :
           NotifyOrder(ref, status, price)

SpecBaseStrategy == InitBroker /\ [][NextBaseStrategy]_vars

\* The same calls and notifications with one parameter value each where the
\* value has no part in the tracking of the orders: the default percentage,
\* market orders (a buy of two shares, a sell of the position), one
\* execution price.
NextOrderTracking ==
    \/ NewStrategy(1000)
    \/ PlaceBuyOrder([exectype |-> "Market", price |-> 0], Some(2))
    \/ PlaceSellOrder([exectype |-> "Market", price |-> 0], None)
    \/ SetTrailingStop
    \/ \E ref \in 1..MaxOrders, status \in AllStatuses :
           NotifyOrder(ref, status, 100 * Million)

SpecOrderTracking == InitBroker /\ [][NextOrderTracking]_vars

\* ================================================ SMAStrategy
\* backtrader's broker executes a market order at the open of the next bar
\* and delivers the bar's notifications before it calls next: when next
\* runs, every order has been accepted and no market order is still open.
NotificationsDelivered ==
    \A ref \in 1..Len(orders) :
        /\ orders[ref].status \notin {"Created", "Submitted"}
        /\ orders[ref].exectype = "Market" => ~Outstanding(orders[ref])

\* next(), with the sign of self.crossover on this bar and the size
\* get_position_size computes from the cash and the close.
SMANext(crossover, size) ==
    /\ Constructed
    /\ NotificationsDelivered
    /\ CASE st_order # 0 ->
              UNCHANGED <<st_order, orders, trailing_stop_set, trailing_stop_order_ids, order_types>>
         [] st_order = 0 /\ position = 0 /\ crossover > 0 ->
              /\ PlaceOrder("buy", "Market", 0, size)
              /\ trailing_stop_set' = FALSE
              /\ UNCHANGED trailing_stop_order_ids
         [] st_order = 0 /\ position = 0 /\ crossover <= 0 ->
              UNCHANGED <<st_order, orders, trailing_stop_set, trailing_stop_order_ids, order_types>>
         [] st_order = 0 /\ position # 0 /\ crossover < 0 ->
              /\ PlaceOrder("sell", "Market", 0, position)
              /\ trailing_stop_set' = FALSE
              /\ UNCHANGED trailing_stop_order_ids
         [] st_order = 0 /\ position # 0 /\ crossover >= 0
               /\ ~trailing_stop_set /\ trailing_stop_percent.v # 0 ->
              /\ SetTrailingStopOrders(trailing_stop_percent.v)
              /\ trailing_stop_set' = TRUE
              /\ UNCHANGED st_order
         [] OTHER ->
              UNCHANGED <<st_order, orders, trailing_stop_set, trailing_stop_order_ids, order_types>>
    /\ UNCHANGED <<trailing_stop_percent, entry_price, position>>
    /\ UNCHANGED <<dataVars, brokerVars, backtestRunnerVars, liveRunnerVars, lambdaVars>>

\* The statuses the backtest broker gives the orders of SMAStrategy: nothing
\* cancels an order or limits its life, and an order is filled at once.
BacktestStatuses == {"Submitted", "Accepted", "Completed", "Margin", "Rejected"}

NextSMAStrategy ==
    \/ \E percent \in StopPercents : NewStrategy(percent)
    \/ \E crossover \in {-1, 0, 1}, size \in OrderSizes : SMANext(crossover, size)
    \/ \E ref \in 1..MaxOrders, status \in BacktestStatuses, price \in ExecutedPrices :
           NotifyOrder(ref, status, price)

SpecSMAStrategy == InitBroker /\ [][NextSMAStrategy]_vars

\* ================================================ lambda_handler
\* The response of the except clause of lambda_handler.
ErrorResponse(e) == [statusCode |-> 500, results |-> <<>>, error |-> Some(e)]

\* The response after run_strategies returned.
OkResponse(r) == [statusCode |-> 200, results |-> r, error |-> NoError]

\* What run_strategy can return for a strategy: no signal, a signal that was
\* executed, an error recorded for a ticker.
StrategyResults ==
    {NoResults,
     [signals |-> <<"SPY">>, executions |-> <<[ticker |-> "SPY", error |-> FALSE]>>,
      errors |-> <<>>],
     [signals |-> <<>>, executions |-> <<>>,
      errors |-> <<[ticker |-> "SPY", error |-> "fetch_raised"]>>]}

\* lambda_handler(event, context) from its try block on: runner = LiveRunner().
LambdaHandler(constructed) ==
    /\ lambda_pc = "idle"
    /\ IF constructed
       THEN /\ lambda_pc' = "run_strategies"
            /\ UNCHANGED <<lambda_raised, response>>
       ELSE /\ lambda_pc' = "returned"
            /\ lambda_raised' = "LiveRunner"
            /\ response' = ErrorResponse("LiveRunner")
    /\ UNCHANGED <<strategies, strategy_i, all_results, strategy_log>>
    /\ UNCHANGED <<dataVars, brokerVars, backtestRunnerVars, liveRunnerVars, strategyVars>>

\* run_strategies() up to its for loop: display_portfolio_status catches its
\* own errors; get_strategies() raises or returns the list; an empty list
\* returns [] at once.
RunStrategies(loaded, list) ==
    /\ lambda_pc = "run_strategies"
    /\ IF ~loaded
       THEN /\ lambda_pc' = "returned"
            /\ lambda_raised' = "run_strategies"
            /\ response' = ErrorResponse("run_strategies")
            /\ UNCHANGED <<strategies, strategy_i>>
       ELSE /\ strategies' = list
            /\ strategy_i' = 1
            /\ lambda_pc' = IF list = <<>> THEN "returned" ELSE "loop"
            /\ response' = IF list = <<>> THEN OkResponse(<<>>) ELSE response
            /\ UNCHANGED lambda_raised
    /\ UNCHANGED <<all_results, strategy_log>>
    /\ UNCHANGED <<dataVars, brokerVars, backtestRunnerVars, liveRunnerVars, strategyVars>>

\* A for loop with no try block: a raising run_strategy leaves run_strategies
\* and reaches the except clause of lambda_handler.
StrategyRaisedNoTry(i, list, done) ==
    [pc |-> "returned", raised |-> "run_strategies",
     response |-> ErrorResponse("run_strategies")]

\* Where things are after a raising run_strategy for the strategy at index
\* i: the except clause of the loop logs the error and the loop goes on;
\* after the last strategy all_results is returned and the response built.
StrategyRaised(i, list, done) ==
    [pc |-> IF i + 1 > Len(list) THEN "returned" ELSE "loop",
     raised |-> "none",
     response |-> IF i + 1 > Len(list) THEN OkResponse(done) ELSE NoResponse]

\* One pass of the for loop of run_strategies, run_strategy raising.
RunStrategyRaises ==
    /\ lambda_pc = "loop"
    /\ strategy_log' = Append(strategy_log,
                              [name |-> strategies[strategy_i], returned |-> FALSE])
    /\ lambda_pc' = StrategyRaised(strategy_i, strategies, all_results).pc
    /\ lambda_raised' = StrategyRaised(strategy_i, strategies, all_results).raised
    /\ response' = StrategyRaised(strategy_i, strategies, all_results).response
    /\ strategy_i' = strategy_i + 1
    /\ UNCHANGED <<strategies, all_results>>
    /\ UNCHANGED <<dataVars, brokerVars, backtestRunnerVars, liveRunnerVars, strategyVars>>

\* One pass of the for loop of run_strategies, run_strategy returning r.
RunStrategyReturns(r) ==
    /\ lambda_pc = "loop"
    /\ strategy_log' = Append(strategy_log,
                              [name |-> strategies[strategy_i], returned |-> TRUE])
    /\ all_results' = Append(all_results, [strategy |-> strategies[strategy_i], results |-> r])
    /\ lambda_pc' = IF strategy_i + 1 > Len(strategies) THEN "returned" ELSE "loop"
    /\ response' = IF strategy_i + 1 > Len(strategies)
                   THEN OkResponse(all_results') ELSE response
    /\ strategy_i' = strategy_i + 1
    /\ UNCHANGED <<strategies, lambda_raised>>
    /\ UNCHANGED <<dataVars, brokerVars, backtestRunnerVars, liveRunnerVars, strategyVars>>

NextLambda ==
    \/ \E constructed \in BOOLEAN : LambdaHandler(constructed)
    \/ \E loaded \in BOOLEAN, list \in StrategyLists : RunStrategies(loaded, list)
    \/ RunStrategyRaises
    \/ \E r \in StrategyResults : RunStrategyReturns(r)

SpecLambda == InitBroker /\ [][NextLambda]_vars

\* ======================================================= properties
\* The file a caller's invocation is about, now and when the invocation began.
FileNow(p) == store[KeyOf(args[p])]

FileAtCall(p) == store0[p][KeyOf(args[p])]

\* The rows of bars with lo <= ts <= hi, in the order they have in bars.
RECURSIVE KeepWithin(_, _, _)
KeepWithin(bars, lo, hi) ==
    IF bars = <<>> THEN <<>>
    ELSE LET rest == KeepWithin(Tail(bars), lo, hi)
         IN  IF lo <= Head(bars).ts /\ Head(bars).ts <= hi
             THEN <<Head(bars)>> \o rest
             ELSE rest

\* The one answer get_stock_bars gave in this invocation was a table.
Answered(p) == Len(responses[p]) = 1 /\ responses[p][1].ok

\* C1: for a readable, non-empty stored series and any required range
\* [start, end], the coverage check answers HIT exactly when some stored
\* timestamp is <= start + 5 days and some stored timestamp is >= end - 5
\* days (that is, data_start <= start + 5d and data_end >= end - 5d), both
\* bounds inclusive.
C1_CoverageIffWithinTolerance ==
    \A p \in Procs :
        (/\ pc[p] \in {"load", "fetch"}
         /\ file_exists[p]
         /\ FileNow(p).kind = "parquet"
         /\ FileNow(p).bars # <<>>)
        => LET bars == FileNow(p).bars
               s == args[p].start_date.t
               e == args[p].end_date.t
           IN  has_coverage[p] <=>
                   /\ \E i \in 1..Len(bars) : bars[i].ts <= s + 5
                   /\ \E i \in 1..Len(bars) : bars[i].ts >= e - 5

\* A HIT on a stored span of exactly [start + 5d, end - 5d].
C1_Witness ==
    \E p \in Procs :
        /\ pc[p] = "load"
        /\ has_coverage[p]
        /\ IndexMin(FileNow(p).bars) = args[p].start_date.t + 5
        /\ IndexMax(FileNow(p).bars) = args[p].end_date.t - 5
        /\ IndexMin(FileNow(p).bars) < IndexMax(FileNow(p).bars)

\* C2: get_data_for_backtest calls the remote fetcher (_fetch_from_alpaca)
\* exactly when the file did not exist or the coverage check was a MISS, at
\* most once, with the caller's ticker, timeframe, start_date and end_date;
\* the request sent to the provider carries that symbol, that granularity
\* and exactly that [start, end].
C2_FetchIffAbsentOrMiss ==
    \A p \in Procs :
        /\ Len(fetchLog[p]) <= 1
        /\ Len(requests[p]) <= Len(fetchLog[p])
        /\ fetchLog[p] # <<>> => fetchLog[p][1] = args[p]
        /\ requests[p] # <<>> =>
              requests[p][1] =
                  [symbol |-> args[p].ticker,
                   timeframe |-> IF args[p].timeframe = "daily" THEN "Day" ELSE "Minute",
                   start |-> args[p].start_date, end |-> args[p].end_date]
        /\ pc[p] = "done" =>
              (Len(fetchLog[p]) = 1 <=>
                  \/ FileAtCall(p).kind = "missing"
                  \/ ~CheckDateRangeCoverageOf(FileAtCall(p), args[p].start_date,
                                               args[p].end_date))

\* A finished invocation that found a file, judged it a MISS and sent one request.
C2_Witness ==
    \E p \in Procs :
        /\ pc[p] = "done"
        /\ file_exists[p]
        /\ FileAtCall(p).bars # <<>>
        /\ ~has_coverage[p]
        /\ Len(fetchLog[p]) = 1
        /\ Len(requests[p]) = 1

\* C3: on a coverage HIT the call returns, without raising, exactly the
\* stored rows with start <= ts <= end (both ends included) in stored order,
\* and makes no remote fetcher call and no provider request.
C3_HitReturnsFilteredNoFetch ==
    \A p \in Procs :
        (pc[p] = "done" /\ has_coverage[p])
        => /\ raised[p] = "none"
           /\ ret[p].bars = KeepWithin(FileAtCall(p).bars, args[p].start_date.t,
                                       args[p].end_date.t)
           /\ fetchLog[p] = <<>>
           /\ requests[p] = <<>>

\* A HIT whose result keeps rows stamped exactly start and exactly end and
\* drops other stored rows.
C3_Witness ==
    \E p \in Procs :
        /\ pc[p] = "done"
        /\ has_coverage[p]
        /\ \E i \in 1..Len(ret[p].bars) : ret[p].bars[i].ts = args[p].start_date.t
        /\ \E i \in 1..Len(ret[p].bars) : ret[p].bars[i].ts = args[p].end_date.t
        /\ Len(ret[p].bars) < Len(FileAtCall(p).bars)

\* C4: when the provider answers the fetch with a non-empty table, the call
\* ends with that table written to the file of (ticker, timeframe) as its
\* whole content, by one save_data, and returns that same table unfiltered:
\* what is returned is what the file then holds.
C4_NonEmptyFetchPersistedThenReturned ==
    \A p \in Procs :
        (pc[p] = "done" /\ Answered(p) /\ responses[p][1].frame.bars # <<>>)
        => /\ raised[p] = "none"
           /\ writes[p] = 1
           /\ ret[p] = responses[p][1].frame
           /\ FileNow(p).kind = "parquet"
           /\ FileNow(p).bars = ret[p].bars
           /\ FileNow(p).tz = ret[p].tz

\* A non-empty fetch that replaced a readable file holding other rows.
C4_Witness ==
    \E p \in Procs :
        /\ pc[p] = "done"
        /\ Answered(p)
        /\ writes[p] = 1
        /\ ret[p].bars # <<>>
        /\ FileAtCall(p).kind = "parquet"
        /\ FileAtCall(p).bars # <<>>

\* C5: when the provider answers the fetch with an empty table, the call
\* returns an empty table, raises nothing and writes nothing: the whole
\* store is as it was when the call began (a missing file is still missing,
\* an insufficient one keeps its content).
C5_EmptyFetchNoWrite ==
    \A p \in Procs :
        (Answered(p) /\ responses[p][1].frame.bars = <<>>)
        => /\ pc[p] = "done"
           /\ raised[p] = "none"
           /\ ret[p].bars = <<>>
           /\ writes[p] = 0
           /\ store = store0[p]

\* An empty answer for a request whose file existed with rows, and was a MISS.
C5_Witness ==
    \E p \in Procs :
        /\ pc[p] = "done"
        /\ Answered(p)
        /\ responses[p][1].frame.bars = <<>>
        /\ FileAtCall(p).kind = "parquet"
        /\ FileAtCall(p).bars # <<>>

\* C6: a file that exists but cannot be read is a coverage MISS: the
\* coverage check answers False without raising, the call goes on to a fresh
\* fetch, and no read error leaves get_data_for_backtest.
C6_UnreadableFileIsMiss ==
    \A p \in Procs :
        (pc[p] # "idle" /\ ~live[p].on /\ FileAtCall(p).kind = "corrupt")
        => /\ pc[p] \notin {"check_exists", "check_coverage"}
              => (file_exists[p] /\ ~has_coverage[p])
           /\ pc[p] # "load"
           /\ raised[p] # "ReadError"
           /\ pc[p] = "done" => Len(fetchLog[p]) = 1

\* An unreadable file replaced by the rows of the fresh fetch.
C6_Witness ==
    \E p \in Procs :
        /\ pc[p] = "done"
        /\ FileAtCall(p).kind = "corrupt"
        /\ raised[p] = "none"
        /\ writes[p] = 1
        /\ FileNow(p).kind = "parquet"

\* C7: an existing, readable file holding an empty series is a coverage MISS
\* for every required range, so the call goes to the fetch.
C7_EmptySeriesIsMiss ==
    \A p \in Procs :
        (/\ pc[p] # "idle"
         /\ ~live[p].on
         /\ FileAtCall(p).kind = "parquet"
         /\ FileAtCall(p).bars = <<>>)
        => /\ pc[p] \notin {"check_exists", "check_coverage"}
              => (file_exists[p] /\ ~has_coverage[p])
           /\ pc[p] # "load"
           /\ pc[p] = "done" => Len(fetchLog[p]) = 1

\* The fetch reached from an empty stored series, for a range as wide as the time line.
C7_Witness ==
    \E p \in Procs :
        /\ pc[p] = "done"
        /\ FileAtCall(p).kind = "parquet"
        /\ FileAtCall(p).bars = <<>>
        /\ args[p].start_date.t = 0
        /\ args[p].end_date.t = MaxT
        /\ Len(requests[p]) = 1

\* C8: replace, not merge.  After a MISS-triggered non-empty fetch and its
\* save, the file holds exactly the fetched rows: a row of the previous
\* content is there only if the fetch returned it.  And at any time a file
\* that save_data has written (and is not writing now) holds exactly the
\* non-empty table of the latest save for that key.
C8_ReplaceNotMerge ==
    /\ \A p \in Procs :
          (pc[p] = "done" /\ writes[p] = 1)
          => /\ FileNow(p).bars = df[p].bars
             /\ df[p] = responses[p][1].frame
             /\ \A i \in 1..Len(FileAtCall(p).bars) :
                   (\E j \in 1..Len(FileNow(p).bars) :
                        FileNow(p).bars[j] = FileAtCall(p).bars[i])
                   => \E j \in 1..Len(df[p].bars) : df[p].bars[j] = FileAtCall(p).bars[i]
    /\ \A k \in Keys :
          (persisted[k].saved /\ store[k].kind # "partial")
          => /\ store[k].kind = "parquet"
             /\ store[k].bars = persisted[k].frame.bars
             /\ persisted[k].frame.bars # <<>>

\* A refetch that wrote fewer rows than the file held, none of the old rows surviving.
C8_Witness ==
    \E p \in Procs :
        /\ pc[p] = "done"
        /\ writes[p] = 1
        /\ file_exists[p]
        /\ FileAtCall(p).bars # <<>>
        /\ Len(FileNow(p).bars) < Len(FileAtCall(p).bars)
        /\ \A i \in 1..Len(FileAtCall(p).bars) :
              \A j \in 1..Len(FileNow(p).bars) :
                  FileNow(p).bars[j].ts # FileAtCall(p).bars[i].ts

\* C9: when get_data_for_backtest is called twice in a row with the same
\* arguments and the first call was a coverage HIT, the second is a HIT too,
\* neither makes a remote fetcher call, the store is the same before the
\* first and after the second, and both return the same table.
C9_HitIsIdempotent ==
    \A p \in Procs :
        (pc[p] = "done" /\ prev.made /\ prev.args = args[p] /\ prev.hit)
        => /\ has_coverage[p]
           /\ prev.fetches = 0
           /\ fetchLog[p] = <<>>
           /\ requests[p] = <<>>
           /\ prev.raised = "none"
           /\ raised[p] = "none"
           /\ store = prev.before
           /\ ret[p] = prev.ret

\* Two HITs in a row on the same arguments, returning rows.
C9_Witness ==
    \E p \in Procs :
        /\ pc[p] = "done"
        /\ prev.made
        /\ prev.args = args[p]
        /\ prev.hit
        /\ ret[p].bars # <<>>

\* The second of two calls for one key: the first found no file and saved a
\* non-empty fetch for [start, end]; the second asks for [start2, end2]
\* inside [start, end].
SecondCallInside(p) ==
    /\ pc[p] = "done"
    /\ prev.made
    /\ ~prev.exists
    /\ prev.writes = 1
    /\ KeyOf(prev.args) = KeyOf(args[p])
    /\ prev.args.start_date.t <= args[p].start_date.t
    /\ args[p].end_date.t <= prev.args.end_date.t

ServedFromFirstFetch(p) ==
    /\ fetchLog[p] = <<>>
    /\ requests[p] = <<>>
    /\ ret[p].bars = KeepWithin(prev.ret.bars, args[p].start_date.t, args[p].end_date.t)

\* C10 as claimed: after a first call that found no file and saved a
\* non-empty fetch for [start, end], a call for any [start2, end2] inside
\* [start, end] makes no remote fetcher call and returns the stored rows
\* filtered to [start2, end2].
C10_AnyInnerRangeServedLocally ==
    \A p \in Procs : SecondCallInside(p) => ServedFromFirstFetch(p)

\* C10: as amended: the same, for the inner ranges [start2, end2] that the
\* saved rows cover within the tolerance: the first saved timestamp is
\* <= start2 + 5 days and the last is >= end2 - 5 days.
C10_CoveredInnerRangeServedLocally ==
    \A p \in Procs :
        (/\ SecondCallInside(p)
         /\ IndexMin(prev.ret.bars) <= args[p].start_date.t + 5
         /\ IndexMax(prev.ret.bars) >= args[p].end_date.t - 5)
        => ServedFromFirstFetch(p)

\* A strictly inner range served from the first fetch, some saved rows filtered out.
C10_Witness ==
    \E p \in Procs :
        /\ SecondCallInside(p)
        /\ prev.args.start_date.t < args[p].start_date.t
        /\ args[p].end_date.t < prev.args.end_date.t
        /\ fetchLog[p] = <<>>
        /\ ret[p].bars # <<>>
        /\ Len(ret[p].bars) < Len(prev.ret.bars)

\* The positions of a call at which it looks at, reads or writes the store.
StorePositions == {"check_exists", "check_coverage", "load", "save", "saving"}

\* C11: get_data_for_live makes no existence check, read or write of the
\* store, whatever the store holds: the call never stands at a position that
\* touches the store, it has read no file and written none, the store is what
\* it was when the call began, and the bars it returns are the provider's
\* answer to its one request.
C11_LiveNeverTouchesStore ==
    \A p \in Procs :
        live[p].on =>
            /\ \A i \in 1..Len(trace[p]) : trace[p][i] \notin StorePositions
            /\ reads[p] = <<>>
            /\ writes[p] = 0
            /\ store = store0[p]
            /\ (pc[p] = "done" /\ raised[p] = "none") =>
                   /\ Len(responses[p]) = 1
                   /\ responses[p][1].ok
                   /\ ret[p] = responses[p][1].frame

\* A live call has returned bars while the store held a series for the ticker.
C11_Witness ==
    /\ live[Caller].on
    /\ pc[Caller] = "done"
    /\ raised[Caller] = "none"
    /\ ret[Caller].bars # <<>>
    /\ FileAtCall(Caller).kind = "parquet"
    /\ FileAtCall(Caller).bars # <<>>

\* C12: get_data_for_live(ticker, days_back) enters the fetcher exactly once,
\* for the daily timeframe, with end = the clock's UTC reading and
\* start = end - (days_back + 10) days; with a client that is one provider
\* request for 1-Day bars over the same start and end.
C12_LiveOneDailyRequestWithBuffer ==
    \A p \in Procs :
        live[p].on =>
            /\ Len(fetchLog[p]) <= 1
            /\ Len(requests[p]) <= 1
            /\ pc[p] = "done" =>
                   /\ Len(fetchLog[p]) = 1
                   /\ fetchLog[p][1].ticker = args[p].ticker
                   /\ fetchLog[p][1].timeframe = "daily"
                   /\ fetchLog[p][1].end_date = DateTime(live[p].now, "UTC")
                   /\ fetchLog[p][1].start_date =
                          DateTime(live[p].now - (live[p].days_back + 10), "UTC")
                   /\ raised[p] # "RuntimeError" =>
                          requests[p] = <<[symbol |-> args[p].ticker,
                                           timeframe |-> "Day",
                                           start |-> fetchLog[p][1].start_date,
                                           end |-> fetchLog[p][1].end_date]>>

\* A live call with a lookback of 5 days has made its request.
C12_Witness ==
    /\ live[Caller].on
    /\ pc[Caller] = "done"
    /\ live[Caller].days_back = 5
    /\ live[Caller].now > 0
    /\ Len(requests[Caller]) = 1

\* The positions of a call that is under way.
Running == {"check_exists", "check_coverage", "load", "fetch", "save", "saving"}

\* How often position x occurs among the positions a call has been at.
Visits(p, x) == Cardinality({i \in 1..Len(trace[p]) : trace[p][i] = x})

\* A call of get_data_for_backtest is never twice at the same position (so at
\* most one fetch and at most one save), it has been at no more than the six
\* positions there are, as long as it has not ended it can take a step, and
\* when it has ended it has raised an error, served the file, served an empty
\* fetch, or served a fetch it saved.
NoRetry ==
    \A p \in Procs :
        (pc[p] # "idle" /\ ~live[p].on) =>
            /\ Len(trace[p]) <= 6
            /\ trace[p][Len(trace[p])] = pc[p]
            /\ \A i, j \in 1..Len(trace[p]) : trace[p][i] = trace[p][j] => i = j
            /\ Visits(p, "fetch") <= 1 /\ Len(fetchLog[p]) <= 1
            /\ Visits(p, "save") <= 1 /\ writes[p] <= 1
            /\ pc[p] # "done" => ENABLED Step(p)
            /\ pc[p] = "done" =>
                   \/ raised[p] # "none"
                   \/ has_coverage[p] /\ Visits(p, "load") = 1 /\ Visits(p, "fetch") = 0
                   \/ /\ Visits(p, "fetch") = 1
                      /\ Visits(p, "save") = 0
                      /\ ret[p].bars = <<>>
                   \/ /\ Visits(p, "fetch") = 1
                      /\ Visits(p, "save") = 1
                      /\ writes[p] = 1
                      /\ ret[p].bars # <<>>

\* C13: a get_data_for_backtest call has no retry and no loop and always
\* ends: NoRetry holds throughout, and every call that is under way reaches
\* its end (served locally, served empty, served fetched, or an error raised).
C13_BacktestCallTerminatesNoRetry ==
    /\ []NoRetry
    /\ \A p \in Procs : (pc[p] \in Running) ~> (pc[p] = "done")

\* A call has ended after an empty fetch that followed a coverage MISS.
C13_Witness ==
    /\ pc[Caller] = "done"
    /\ ~live[Caller].on
    /\ trace[Caller] = <<"check_exists", "check_coverage", "fetch", "done">>
    /\ raised[Caller] = "none"
    /\ ret[Caller].bars = <<>>

\* C14: save_data is atomic for a concurrent reader of the same file: no
\* coverage check and no load of any caller has read a file that another
\* caller's to_parquet had begun and not finished.
C14_NoReaderSeesPartialFile ==
    \A p \in Procs : \A i \in 1..Len(reads[p]) : reads[p][i].kind # "partial"

\* C15: last writer wins.  When two callers of get_data_for_backtest for the
\* same ticker and timeframe have both missed, both fetched and both written,
\* and both calls have ended, the file holds exactly the table of the write
\* that completed last.
C15_LastWriterWins ==
    \A p, q \in Procs :
        (/\ p # q
         /\ pc[p] = "done" /\ pc[q] = "done"
         /\ KeyOf(args[p]) = KeyOf(args[q])
         /\ Len(fetchLog[p]) = 1 /\ Len(fetchLog[q]) = 1
         /\ writes[p] = 1 /\ writes[q] = 1)
        => /\ persisted[KeyOf(args[p])].saved
           /\ store[KeyOf(args[p])] = ParquetFile(persisted[KeyOf(args[p])].frame)

\* The provider has failed a request of p's call.
FetchFailed(p) == \E i \in 1..Len(responses[p]) : ~responses[p][i].ok

\* C16: when the provider fails during get_data_for_backtest or
\* get_data_for_live, the call has ended with the fetch error raised to its
\* caller, the fetcher was entered once and the provider asked once, nothing
\* was written, and the store is what it was when the call began.
C16_FetchFailurePropagatesNoRetry ==
    \A p \in Procs :
        (pc[p] # "idle" /\ FetchFailed(p)) =>
            /\ pc[p] = "done"
            /\ raised[p] = "FetchError"
            /\ Len(fetchLog[p]) = 1
            /\ Len(requests[p]) = 1
            /\ Len(responses[p]) = 1
            /\ writes[p] = 0
            /\ store = store0[p]

\* The provider failed a backtest call that had found a readable file with too
\* little coverage.
C16_Witness ==
    /\ pc[Caller] = "done"
    /\ ~live[Caller].on
    /\ FetchFailed(Caller)
    /\ file_exists[Caller]
    /\ FileAtCall(Caller).kind = "parquet"
    /\ FileAtCall(Caller).bars # <<>>

\* C17: while init_alpaca_client has not been called (as in OptimizationRunner,
\* which never calls it), a get_data_for_backtest call makes no provider
\* request and no write and leaves the store as it was; if it reaches the
\* fetch (no file, or a MISS) it ends with the RuntimeError of the missing
\* client, and if it is a coverage HIT it ends without error with the rows of
\* the file in the requested range.
C17_NoClientFailsFastHitSucceeds ==
    \A p \in Procs :
        (pc[p] # "idle" /\ ~live[p].on /\ ~alpaca_client) =>
            /\ requests[p] = <<>>
            /\ responses[p] = <<>>
            /\ writes[p] = 0
            /\ store = store0[p]
            /\ pc[p] = "done" =>
                   IF file_exists[p] /\ has_coverage[p]
                   THEN /\ raised[p] = "none"
                        /\ fetchLog[p] = <<>>
                        /\ ret[p] = LoadFromFileOf(FileAtCall(p), args[p].start_date,
                                                   args[p].end_date)
                   ELSE /\ raised[p] = "RuntimeError"
                        /\ Len(fetchLog[p]) = 1
                        /\ ret[p] = EmptyFrame

\* Without a client, one call was served from the file and the next one, a
\* MISS on the same file, has failed.
C17_Witness ==
    /\ ~alpaca_client
    /\ pc[Caller] = "done"
    /\ raised[Caller] = "RuntimeError"
    /\ file_exists[Caller]
    /\ prev.made /\ prev.hit /\ prev.raised = "none" /\ prev.ret.bars # <<>>

\* The file of the ticker and timeframe p's call was made for.
OwnFile(p) == FilePath(args[p].ticker, args[p].timeframe)

\* C18: a retrieval for one (ticker, timeframe) leaves every other file as it
\* was; the store differs from what it was when the call began only once
\* save_data has begun, in a get_data_for_backtest call whose fetch was
\* answered with a non-empty table; and the existence and coverage verdicts
\* are those of the call's own file alone, whatever the other files hold.
C18_OnlyOwnPartitionOnlyBySave ==
    \A p \in Procs :
        pc[p] # "idle" =>
            /\ \A k \in Keys \ {OwnFile(p)} : store[k] = store0[p][k]
            /\ store # store0[p] =>
                   /\ ~live[p].on
                   /\ pc[p] \in {"saving", "done"}
                   /\ Visits(p, "saving") = 1
                   /\ Answered(p)
                   /\ responses[p][1].frame.bars # <<>>
            /\ (~live[p].on /\ pc[p] # "check_exists") =>
                   file_exists[p] = CheckFileExistsOf(store0[p][OwnFile(p)])
            /\ (~live[p].on /\ file_exists[p]
                    /\ pc[p] \notin {"check_exists", "check_coverage"}) =>
                   has_coverage[p] =
                       CheckDateRangeCoverageOf(store0[p][OwnFile(p)],
                                                args[p].start_date, args[p].end_date)

\* A call for minute bars has written its file while the same ticker's daily
\* file held bars.
C18_Witness ==
    /\ pc[Caller] = "done"
    /\ args[Caller].timeframe = "minute"
    /\ writes[Caller] = 1
    /\ store # store0[Caller]
    /\ store[FilePath(args[Caller].ticker, "daily")].kind = "parquet"
    /\ store[FilePath(args[Caller].ticker, "daily")].bars # <<>>

\* The same wall-clock value, naive or tagged UTC.
Retag(dt, tz) == DateTime(dt.t, tz)

TimeZones == {"UTC", "naive"}

\* C19: timezone normalization does not change decisions.  For the file a
\* call found and the range it asked for, the coverage verdict the call
\* reached is the verdict for the same wall-clock values under every tagging
\* (file index naive or UTC, start naive or UTC, end naive or UTC), and it is
\* the comparison of the values read as UTC; on a HIT the rows returned are
\* the same under every tagging, and they carry a UTC index.
C19_TimezoneTaggingDoesNotChangeDecisions ==
    \A p \in Procs :
        (/\ ~live[p].on
         /\ pc[p] \in {"load", "fetch", "save", "saving", "done"}
         /\ file_exists[p]
         /\ ~ReadRaises(FileAtCall(p))) =>
            /\ \A ftz, stz, etz \in TimeZones :
                   has_coverage[p] =
                       CheckDateRangeCoverageOf([FileAtCall(p) EXCEPT !.tz = ftz],
                                                Retag(args[p].start_date, stz),
                                                Retag(args[p].end_date, etz))
            /\ FileAtCall(p).bars # <<>> =>
                   has_coverage[p] =
                       (/\ IndexMin(FileAtCall(p).bars) <= args[p].start_date.t + 5
                        /\ IndexMax(FileAtCall(p).bars) >= args[p].end_date.t - 5)
            /\ (pc[p] = "done" /\ has_coverage[p]) =>
                   /\ raised[p] = "none"
                   /\ ret[p].tz = "UTC"
                   /\ ret[p].bars = KeepWithin(FileAtCall(p).bars, args[p].start_date.t,
                                               args[p].end_date.t)
                   /\ \A ftz, stz, etz \in TimeZones :
                          ret[p] = LoadFromFileOf([FileAtCall(p) EXCEPT !.tz = ftz],
                                                  Retag(args[p].start_date, stz),
                                                  Retag(args[p].end_date, etz))

\* A request with naive dates was served from a file with a naive index.
C19_Witness ==
    /\ pc[Caller] = "done"
    /\ has_coverage[Caller]
    /\ args[Caller].start_date.tz = "naive"
    /\ FileAtCall(Caller).kind = "parquet"
    /\ FileAtCall(Caller).tz = "naive"
    /\ ret[Caller].bars # <<>>

\* The range of p's call contains every timestamp of bars.
RangeContains(p, bars) ==
    \A i \in 1..Len(bars) :
        args[p].start_date.t <= bars[i].ts /\ bars[i].ts <= args[p].end_date.t

\* C20: save_data followed by a load gives the bars back.  A call that is
\* served from the file the call just before it saved, with a range that
\* contains all the saved timestamps, returns the bars that were handed to
\* save_data, in their order, with a UTC index; and saving the table of any
\* file in the store and loading it over the whole time axis gives its bars
\* back in their order, a naive index tagged UTC.
C20_SaveThenLoadRoundTrip ==
    /\ \A p \in Procs :
           (/\ pc[p] = "done" /\ ~live[p].on
            /\ file_exists[p] /\ has_coverage[p]
            /\ prev.made /\ prev.writes = 1
            /\ KeyOf(prev.args) = KeyOf(args[p])
            /\ RangeContains(p, prev.ret.bars))
           => /\ raised[p] = "none"
              /\ ret[p] = Frame("UTC", prev.ret.bars)
    /\ \A k \in Keys :
           store[k].kind = "parquet" =>
               LoadFromFileOf(WrittenFile(MissingFile, Frame(store[k].tz, store[k].bars)),
                              DateTime(0, "naive"), DateTime(MaxT, "naive"))
                   = Frame("UTC", store[k].bars)

\* A call got back, from the file, every bar the call before it had saved.
C20_Witness ==
    /\ pc[Caller] = "done"
    /\ has_coverage[Caller]
    /\ prev.made /\ prev.writes = 1
    /\ KeyOf(prev.args) = KeyOf(args[Caller])
    /\ RangeContains(Caller, prev.ret.bars)
    /\ Len(ret[Caller].bars) >= 2
    /\ ret[Caller].bars = prev.ret.bars

\* Strictly increasing timestamps (hence unique ones).
StrictlyAscending(bars) ==
    \A i \in 1..(Len(bars) - 1) : bars[i].ts < bars[i + 1].ts

\* C21: with a provider that answers in strictly ascending timestamp order,
\* after any sequence of get_data_for_backtest and get_data_for_live calls
\* every table a call has fetched or returned, and every series in the store,
\* has strictly increasing (so unique) timestamps.
C21_SeriesStrictlyAscending ==
    /\ \A p \in Procs :
           /\ StrictlyAscending(ret[p].bars)
           /\ StrictlyAscending(df[p].bars)
           /\ prev.made => StrictlyAscending(prev.ret.bars)
    /\ \A k \in Keys : StrictlyAscending(store[k].bars)
    /\ \A k \in Keys : persisted[k].saved => StrictlyAscending(persisted[k].frame.bars)

\* A call was served several rows from a file that an earlier call had saved.
C21_Witness ==
    /\ pc[Caller] = "done"
    /\ ~live[Caller].on
    /\ has_coverage[Caller]
    /\ Len(ret[Caller].bars) >= 3
    /\ persisted[KeyOf(args[Caller])].saved
    /\ prev.made

\* The coverage check of p's call answered HIT on a file with rows.
HitOnRows(p) ==
    /\ ~live[p].on
    /\ pc[p] \in {"load", "done"}
    /\ file_exists[p] /\ has_coverage[p]
    /\ FileAtCall(p).kind = "parquet"
    /\ FileAtCall(p).bars # <<>>

\* The stored span [data_start, data_end] and [lo, hi] have an instant in common.
SpanOverlaps(bars, lo, hi) == IndexMin(bars) <= hi /\ IndexMax(bars) >= lo

\* C26 as stated: whenever the coverage check answers HIT for [start, end],
\* the stored span overlaps [start, end].
C26_HitSpanOverlapsRange ==
    \A p \in Procs :
        HitOnRows(p) =>
            SpanOverlaps(FileAtCall(p).bars, args[p].start_date.t, args[p].end_date.t)

\* C26: whenever the coverage check answers HIT for [start, end], the stored
\* span overlaps [start - 5 days, end + 5 days]; it overlaps [start, end]
\* itself when the range is at least 5 days long; and when it does not overlap
\* [start, end] the call returns an empty table.
C26_HitSpanOverlapsWithinTolerance ==
    \A p \in Procs :
        HitOnRows(p) =>
            /\ SpanOverlaps(FileAtCall(p).bars, args[p].start_date.t - 5,
                            args[p].end_date.t + 5)
            /\ args[p].end_date.t - args[p].start_date.t >= 5 =>
                   SpanOverlaps(FileAtCall(p).bars, args[p].start_date.t,
                                args[p].end_date.t)
            /\ (/\ pc[p] = "done"
                /\ ~SpanOverlaps(FileAtCall(p).bars, args[p].start_date.t,
                                 args[p].end_date.t))
               => ret[p].bars = <<>> /\ raised[p] = "none"

\* A HIT was served, empty, from a series that begins after the end of the
\* requested range.
C26_Witness ==
    /\ HitOnRows(Caller)
    /\ pc[Caller] = "done"
    /\ IndexMin(FileAtCall(Caller).bars) > args[Caller].end_date.t
    /\ ret[Caller].bars = <<>>

\* C27: on the HIT path the table a call returns is computed from the file
\* content on which its coverage check answered HIT: the load read the same
\* content as the coverage check, and the call returns that content's rows in
\* the requested range, whatever other callers' save_data did in between.
C27_HitServedFromCheckedContent ==
    \A p \in Procs :
        (pc[p] = "done" /\ ~live[p].on /\ file_exists[p] /\ has_coverage[p]) =>
            /\ Len(reads[p]) = 2
            /\ reads[p][2] = reads[p][1]
            /\ raised[p] = "none"
            /\ ret[p] = LoadFromFileOf(reads[p][1], args[p].start_date, args[p].end_date)

\* C23: at submission a TrailingStopOrder's decimal trail_percent goes into
\* the broker request as the whole-number percent, 100 times the order's
\* value (0.05 is sent as 5).
C23_RequestCarriesWholePercent ==
    (alpaca_request.built /\ order.trail_percent.some) =>
        /\ alpaca_request.trail_percent.some
        /\ alpaca_request.trail_percent.v = 100 * order.trail_percent.v

\* C22: a trail_percent p between 0.0001 and 1.0 comes back unchanged: the
\* order parsed from the echo of an accepted submission has trail_percent p.
C22_TrailPercentRoundTrips ==
    (/\ order_result.returned /\ order_result.success
     /\ order.trail_percent.some
     /\ order.trail_percent.v >= 100 /\ order.trail_percent.v <= 1000000)
    => order_result.trail_percent = order.trail_percent

\* run_backtest has ended: it returned or an error left it.
BacktestEnded == bt_pc \in {"done", "raised"}

\* The daily retrieval was made for the ticker at index i.
DailyTried(i) ==
    \E j \in 1..Len(bt_log) :
        bt_log[j].ticker = bt_tickers[i] /\ bt_log[j].timeframe = "daily"

\* C24: in run_backtest a retrieval that raises for one ticker skips only that
\* ticker: when run_backtest has ended, the daily retrieval has been made for
\* every ticker of the list and the backtest has been run (cerebro.run was
\* reached, no error left run_backtest).
C24_RetrievalFailureSkipsOnlyThatTicker ==
    BacktestEnded =>
        /\ \A i \in 1..Len(bt_tickers) : DailyTried(i)
        /\ bt_pc = "done"

\* The tickers of the entries of a list, in order.
TickersOf(entries) == [j \in 1..Len(entries) |-> entries[j].ticker]

\* The tickers the loop has processed with an outcome of the set, in order.
RECURSIVE ProcessedWith(_, _)
ProcessedWith(log, outcomes) ==
    IF log = <<>> THEN <<>>
    ELSE IF log[1].outcome \in outcomes
         THEN <<log[1].ticker>> \o ProcessedWith(Tail(log), outcomes)
         ELSE ProcessedWith(Tail(log), outcomes)

\* The executions that carry an 'error'.
FailedExecutions == SelectSeq(results.executions, LAMBDA e : e.error)

\* run_strategy never aborts and attempts every ticker exactly once, in order.
EveryTickerOnce ==
    /\ lv_pc # "raised"
    /\ lv_pc = "loop" => Len(lv_log) = lv_i - 1
    /\ lv_pc = "returned" => TickersOf(lv_log) = lv_tickers

\* C25 as stated: every failure while retrieving or processing a ticker
\* (retrieval, signal check, execution of the signal) is recorded in
\* results['errors'] for that ticker, and every ticker is attempted exactly once.
C25_EveryFailureInErrors ==
    /\ EveryTickerOnce
    /\ TickersOf(results.errors)
           = ProcessedWith(lv_log, RaisedInLoop \cup ExecutionError)

\* C25, amended: run_strategy never aborts and attempts every ticker exactly
\* once; a failure of the retrieval or of the signal check is recorded in
\* results['errors'] for that ticker, while a failure in executing the signal
\* is recorded as an entry of results['executions'] that carries 'error'.
C25_FailuresRecordedPerTicker ==
    /\ EveryTickerOnce
    /\ TickersOf(results.errors) = ProcessedWith(lv_log, RaisedInLoop)
    /\ TickersOf(FailedExecutions) = ProcessedWith(lv_log, ExecutionError)

\* run_strategy has returned after a failed retrieval for the first ticker,
\* a failed execution for the second and a third ticker processed after them.
C25_Witness ==
    /\ lv_pc = "returned"
    /\ Len(lv_log) = 3
    /\ lv_log[1].outcome = "fetch_raised"
    /\ lv_log[2].outcome = "submit_failed"
    /\ Len(results.errors) = 1
    /\ Len(results.executions) >= 1

\* The refs of the outstanding orders made through place_buy_order / place_sell_order.
PlacedOutstanding ==
    {ref \in 1..Len(orders) : orders[ref].placed /\ Outstanding(orders[ref])}

\* The refs of the outstanding orders made by set_trailing_stop.
StopsOutstanding ==
    {ref \in 1..Len(orders) : ~orders[ref].placed /\ Outstanding(orders[ref])}

\* C28: over any sequence of place_buy_order / place_sell_order calls and
\* notify_order events, at most one order placed through place_* is
\* outstanding (not completed, canceled, rejected or expired) at any time.
C28_AtMostOnePlacedOrderOutstanding == Cardinality(PlacedOutstanding) <= 1

\* C29: in SMAStrategy no trailing-stop order is outstanding while the
\* position is flat, and at most one is outstanding while a position is open.
C29_NoStopLeftBehind ==
    /\ position = 0 => StopsOutstanding = {}
    /\ position # 0 => Cardinality(StopsOutstanding) <= 1

\* C30: with params.trailing_stop_percent = p in decimal form, every stop
\* order SMAStrategy creates is at entry_price * (1 - p) and a sell for a long
\* position, at entry_price * (1 + p) and a buy for a short one, and its size
\* is the absolute position size.
C30_StopAtEntryTimesOneMinusP ==
    \A ref \in 1..Len(orders) :
        ~orders[ref].placed =>
            /\ orders[ref].price =
                 IF orders[ref].ordtype = "sell"
                 THEN Times(orders[ref].basis, Million - trailing_stop_percent.v)
                 ELSE Times(orders[ref].basis, Million + trailing_stop_percent.v)
            /\ orders[ref].status = "Created" => orders[ref].size = Abs(position)

\* The refs of the orders backtrader is done with.
Finished == {ref \in 1..Len(orders) : ~Outstanding(orders[ref])}

\* C31: after notify_order was delivered for an order in a final status
\* (Completed, Canceled, Margin, Rejected, Expired), the order's ref is in
\* neither trailing_stop_order_ids nor order_types.
C31_FinishedOrderUntracked ==
    \A ref \in Finished :
        ref \notin trailing_stop_order_ids /\ ref \notin DOMAIN order_types

\* C32: trailing_stop_order_ids is a subset of the keys of order_types, and
\* every ref in it maps to 'trailing_stop'.
C32_StopIdsTypedAsTrailingStop ==
    /\ trailing_stop_order_ids \subseteq DOMAIN order_types
    /\ \A ref \in trailing_stop_order_ids : order_types[ref] = "trailing_stop"

\* A stop order is tracked next to a tracked order made by place_*, after
\* notify_order has untracked a finished order.
C32_Witness ==
    /\ trailing_stop_order_ids # {}
    /\ \E ref \in DOMAIN order_types : order_types[ref] \in {"buy", "sell"}
    /\ \E ref \in Finished : ref \notin DOMAIN order_types

C34_FetchesConfiguredTickers ==
    lv_pc = "returned" =>
        /\ TickersOf(lv_log) = strategy_config.tickers
        /\ \A j \in 1..Len(lv_log) : lv_log[j].days_back = strategy_config.lookback_days

\* C35: submit_order never raises; the OrderResult it returns has order set
\* and error None when success is True, order None and error set when success
\* is False; an unsupported order type and an exception of the broker client
\* both give success = False.
C35_SubmitOrderAlwaysReturnsResult ==
    /\ ~order_result.raised
    /\ order_result.returned =>
          /\ order_result.success => order_result.order /\ ~order_result.error.some
          /\ ~order_result.success => ~order_result.order /\ order_result.error.some
          /\ order.order_type \notin SupportedOrderTypes => ~order_result.success
          /\ (alpaca_request.built /\ ~alpaca_order.returned) => ~order_result.success

\* submit_order has returned after the broker client raised on the request.
C35_Witness ==
    /\ order_result.returned
    /\ alpaca_request.built
    /\ ~alpaca_order.returned
    /\ order_result.error.some

\* C36: a TrailingStopOrder exists only with exactly one of trail_percent and
\* trail_price set; its construction raises ValueError when both are None
\* and when both are given.
C36_ExactlyOneTrailValue ==
    /\ (order.made /\ order.order_type = "trailing_stop") =>
          order.trail_percent.some # order.trail_price.some
    /\ order_raised = "ValueError" =>
          ~order.made /\ order.trail_percent.some = order.trail_price.some
    /\ (~order.made /\ (order.trail_percent.some \/ order.trail_price.some)) =>
          order_raised = "ValueError"

\* The construction with both values given has raised ValueError.
C36_Witness ==
    /\ order_raised = "ValueError"
    /\ order.trail_percent.some
    /\ order.trail_price.some

\* The names of the strategies whose run_strategy returned, in order.
StrategiesReturned ==
    [j \in 1..Len(SelectSeq(strategy_log, LAMBDA e : e.returned)) |->
        SelectSeq(strategy_log, LAMBDA e : e.returned)[j].name]

\* C37: from its try block on lambda_handler never raises; the response has
\* statusCode 500 exactly when the construction of LiveRunner or
\* run_strategies raised and 200 otherwise; a run_strategy that raises is
\* caught in run_strategies: every strategy is still run, the results hold
\* the strategies that returned, in order, and the response is 200.
C37_HandlerAlwaysResponds ==
    /\ lambda_pc # "raised"
    /\ lambda_pc = "returned" =>
          /\ response.statusCode = IF lambda_raised = "none" THEN 200 ELSE 500
          /\ lambda_raised = "none" =>
                /\ Len(strategy_log) = Len(strategies)
                /\ [j \in 1..Len(response.results) |-> response.results[j].strategy]
                       = StrategiesReturned
    /\ lambda_raised # "none" =>
          /\ lambda_pc = "returned"
          /\ \A j \in 1..Len(strategy_log) : strategy_log[j].returned

\* The handler has answered 200 after a strategy raised and a later one returned.
C37_Witness ==
    /\ lambda_pc = "returned"
    /\ response.statusCode = 200
    /\ \E j, k \in 1..Len(strategy_log) :
          j < k /\ ~strategy_log[j].returned /\ strategy_log[k].returned

====
